---- MODULE Spec2Model ----
(***************************************************************************)
(* The asynchronous document-processing pipeline of the backend:           *)
(* DocumentsService (documents.service.ts), the DocumentsController        *)
(* wrapper of download, OcrService.extractText and LlmService.             *)
(*                                                                         *)
(* Every `await` of a handler is a point where other handlers may run, so  *)
(* a handler is one action per awaited database / adapter call.  A call's  *)
(* effect on the store and the synchronous code that follows it up to the  *)
(* next awaited call form one step.                                        *)
(***************************************************************************)
EXTENDS Integers, Sequences, FiniteSets, TLC

\* ------------------------------------------------------------- bounds
MaxDocs == 1          \* documents ever created (ids are never reused)
MaxRuns == 2          \* pipeline runs ever started (submit + reprocess)
MaxReqs == 1          \* boundary requests in flight at once
MaxInteractions == 1  \* rows of llm_interactions

Users == {"u1", "u2"}
Uploaders == {"u1"}
DocIds == 1..MaxDocs
Slots == 1..MaxReqs

\* Strings are sequences of characters / message fragments, so that
\* concatenation, trimming and containment are computed, not assumed.
NullStr == <<"<null>">>
NullNum == -1

\* What the upload endpoint hands to createDocument: the MIME type the
\* file filter accepted and the extension kept in the stored file name.
Uploads == {[mimeType |-> "application/pdf", ext |-> ".pdf"],
            [mimeType |-> "image/png", ext |-> ".png"]}

\* ------------------------------------------------------------- strings
IsSpace(c) == c = " "

RECURSIVE TrimLeft(_)
TrimLeft(s) == IF s # <<>> /\ IsSpace(Head(s)) THEN TrimLeft(Tail(s)) ELSE s

RECURSIVE TrimRight(_)
TrimRight(s) ==
    IF s # <<>> /\ IsSpace(s[Len(s)]) THEN TrimRight(SubSeq(s, 1, Len(s) - 1)) ELSE s

Trim(s) == TrimRight(TrimLeft(s))

Substring(s, from, to) ==
    SubSeq(s, from + 1, IF to < Len(s) THEN to ELSE Len(s))

Contains(msg, part) == \E i \in 1..Len(msg) : msg[i] = part

\* ------------------------------------------------------------- messages
MsgDocumentNotFound == <<"Document not found">>
MsgAccessDenied == <<"Access denied">>
MsgNotReady == <<"OCR processing not completed yet">>
MsgRecordNotFound == <<"Record to update not found">>
MsgForeignKey == <<"Foreign key constraint failed">>
MsgENOENT == "ENOENT: no such file or directory"
MsgKeyMissing == <<"OpenAI API key is not configured">>

\* ------------------------------------------------- Text Extraction Adapter
\* What the external engine (pdf-parse / tesseract.js) can answer.
RawTexts == {<<>>, <<" ", "t">>}
EngineConfidences == {NullNum}
EngineErrors == {"corrupt"}
EngineTimes == {1500}      \* Date.now() - startTime, in milliseconds
EngineOutcomes ==
    {[ok |-> TRUE, text |-> t, confidence |-> c, msg |-> "", ms |-> ms] :
        t \in RawTexts, c \in EngineConfidences, ms \in EngineTimes}
    \cup {[ok |-> FALSE, text |-> <<>>, confidence |-> NullNum, msg |-> m,
            ms |-> NullNum] : m \in EngineErrors}

ExtractOk(text, confidence, processingTime) ==
    [ok |-> TRUE, text |-> text, confidence |-> confidence,
     processingTime |-> processingTime, message |-> NullStr]
ExtractError(message) ==
    [ok |-> FALSE, text |-> <<>>, confidence |-> NullNum,
     processingTime |-> NullNum, message |-> message]

IsPdf(filePath, mimeType) ==
    mimeType = "application/pdf" \/ filePath.ext = ".pdf"

\* The inner catch of the PDF branch rethrows with its own prefix.
PdfError(m) == <<"PDF text extraction failed: ", m>>

\* The outer catch of extractText wraps whatever was thrown inside.
OcrError(inner) == <<"OCR processing failed: ">> \o inner

\* mutant: a PDF without a text layer is reported as a failure
extractTextEmptyPdfFails(filePath, mimeType, fileExists, engine) ==
    IF IsPdf(filePath, mimeType)
    THEN IF ~fileExists THEN ExtractError(OcrError(PdfError(MsgENOENT)))
         ELSE IF ~engine.ok THEN ExtractError(OcrError(PdfError(engine.msg)))
         ELSE IF Trim(engine.text) = <<>>
              THEN ExtractError(OcrError(PdfError("no text")))
              ELSE ExtractOk(Trim(engine.text), 100, engine.ms)
    ELSE IF ~fileExists THEN ExtractError(OcrError(<<MsgENOENT>>))
         ELSE IF ~engine.ok
              THEN ExtractError(OcrError(
                       <<"OCR processing failed: Tesseract.js encountered an error. Error: ",
                         engine.msg>>))
              ELSE ExtractOk(Trim(engine.text),
                             IF engine.confidence = NullNum THEN 0
                             ELSE engine.confidence,
                             engine.ms)

\* OcrService.extractText: fileExists is what fs.readFile finds, engine is
\* the engine's answer when it is reached.
extractText(filePath, mimeType, fileExists, engine) ==
    IF IsPdf(filePath, mimeType)
    THEN IF ~fileExists THEN ExtractError(OcrError(PdfError(MsgENOENT)))
         ELSE IF ~engine.ok THEN ExtractError(OcrError(PdfError(engine.msg)))
         ELSE ExtractOk(Trim(engine.text), 100, engine.ms)
    ELSE IF ~fileExists THEN ExtractError(OcrError(<<MsgENOENT>>))
         ELSE IF ~engine.ok
              THEN ExtractError(OcrError(
                       <<"OCR processing failed: Tesseract.js encountered an error. Error: ",
                         engine.msg>>))
              ELSE ExtractOk(Trim(engine.text),
                             IF engine.confidence = NullNum THEN 0
                             ELSE engine.confidence,
                             engine.ms)

\* Tesseract workers the call has created and not terminated when it
\* returns or throws: createWorker, recognize, terminate follow each other
\* inside the try block, so terminate is skipped when recognize throws
\* (a file that cannot be read makes recognize throw).
liveWorkers(filePath, mimeType, fileExists, engine) ==
    IF IsPdf(filePath, mimeType) THEN 0
    ELSE IF ~fileExists \/ ~engine.ok THEN 1
    ELSE 0

\* --------------------------------------------------- AI Assistant Adapter
LlmTexts == {<<"\"", "s", "\"">>}
LlmErrors == {"rate limit"}
ApiOutcomes ==
    {[ok |-> TRUE, text |-> t, msg |-> ""] : t \in LlmTexts}
    \cup {[ok |-> FALSE, text |-> <<>>, msg |-> m] : m \in LlmErrors}

LlmOk(text) == [ok |-> TRUE, text |-> text, message |-> NullStr]
LlmError(message) == [ok |-> FALSE, text |-> <<>>, message |-> message]

NoCall == [fn |-> "none", messages |-> <<>>]

\* LlmService.generateExplanation: the messages it sends, and its result.
ExplanationPrompt(extractedText, context) ==
    IF context # <<>>
    THEN <<"explain with context: ">> \o context \o <<"\n">> \o extractedText
    ELSE <<"explain: ">> \o extractedText

ExplanationCall(extractedText, context) ==
    [fn |-> "generateExplanation",
     messages |-> << [role |-> "system", content |-> <<"explain documents">>],
                     [role |-> "user",
                      content |-> ExplanationPrompt(extractedText, context)] >>]

\* mutant: the configuration test sits inside the try block, so its error
\* is rethrown by the catch like an error of the call
generateExplanationCheckInsideTry(configured, api) ==
    IF ~configured THEN LlmError(<<"LLM explanation failed: ">> \o MsgKeyMissing)
    ELSE IF api.ok THEN LlmOk(api.text)
    ELSE LlmError(<<"LLM explanation failed: ", api.msg>>)

generateExplanation(configured, api) ==
    IF ~configured THEN LlmError(MsgKeyMissing)
    ELSE IF api.ok THEN LlmOk(api.text)
    ELSE LlmError(<<"LLM explanation failed: ", api.msg>>)

\* LlmService.answerQuery: previousInteractions arrive newest-first.
RECURSIVE Reverse(_)
Reverse(s) == IF s = <<>> THEN <<>> ELSE Reverse(Tail(s)) \o <<Head(s)>>

RECURSIVE Turns(_)
Turns(history) ==
    IF history = <<>> THEN <<>>
    ELSE << [role |-> "user", content |-> Head(history).prompt],
            [role |-> "assistant", content |-> Head(history).response] >>
         \o Turns(Tail(history))

QueryPrompt(extractedText, query) ==
    <<"answer from: ">> \o extractedText \o <<"\n", "User question: ">> \o query

\* mutant: the loaded interactions are replayed as loaded, newest first
QueryCallNewestFirst(extractedText, query, previousInteractions) ==
    [fn |-> "answerQuery",
     messages |-> << [role |-> "system", content |-> <<"answer questions">>] >>
                  \o Turns(previousInteractions)
                  \o << [role |-> "user",
                         content |-> QueryPrompt(extractedText, query)] >>]

QueryCall(extractedText, query, previousInteractions) ==
    [fn |-> "answerQuery",
     messages |-> << [role |-> "system", content |-> <<"answer questions">>] >>
                  \o (IF Len(previousInteractions) > 0
                      THEN Turns(Reverse(previousInteractions)) ELSE <<>>)
                  \o << [role |-> "user",
                         content |-> QueryPrompt(extractedText, query)] >>]

answerQuery(configured, api) ==
    IF ~configured THEN LlmError(MsgKeyMissing)
    ELSE IF api.ok THEN LlmOk(api.text)
    ELSE LlmError(<<"LLM query failed: ", api.msg>>)


\* ------------------------------------------------------------- state
VARIABLES
    docs,           \* table documents: id -> row
    ocr,            \* table ocr_results, keyed by its unique documentId
    interactions,   \* table llm_interactions, in creation order
    files,          \* the stored files that exist on disk
    runs,           \* every processOCR promise ever scheduled
    reqs,           \* boundary requests suspended at an await
    resp,           \* what the last step returned to an HTTP caller
    llmCall,        \* what the last step sent to the OpenAI API
    nextId,         \* the next fresh document id
    llmConfigured,  \* LlmService.openai is not null
    crashed         \* a promise rejection nobody handled

vars == <<docs, ocr, interactions, files, runs, reqs, resp, llmCall, nextId,
          llmConfigured, crashed>>

NoResp == [op |-> "none", kind |-> "none", msg |-> <<>>, uploadStatus |-> ""]
NoDocument == [filePath |-> [name |-> 0, ext |-> ""], mimeType |-> ""]
NoResult == ExtractOk(<<>>, NullNum, NullNum)

Exists(d) == d \in DOMAIN docs
HasOcr(d) == d \in DOMAIN ocr

InFlight(r) == r.pc # "done"
RunsOf(d) == {i \in 1..Len(runs) : runs[i].doc = d}
ActiveRunsOf(d) == {i \in RunsOf(d) : InFlight(runs[i])}

\* A function with one more / one fewer key.
Put(f, k, v) == [x \in DOMAIN f \cup {k} |-> IF x = k THEN v ELSE f[x]]
Drop(f, k) == [x \in DOMAIN f \ {k} |-> f[x]]

\* ------------------------------------------------------------- processOCR
\* this.processOCR(id) runs up to its first await: the promise exists and
\* its first update is under way, nothing has been written yet.
NewRun(d, origin) ==
    [doc |-> d, origin |-> origin, pc |-> "setProcessing",
     document |-> NoDocument, result |-> NoResult, summary |-> NullStr,
     error |-> NullStr, outcome |-> "pending",
     overlapped |-> ActiveRunsOf(d) # {},
     workers |-> 0]

\* Scheduling a run next to the runs that are still in flight for the
\* same document (ghost: remembers that they overlapped).
Schedule(d, origin) ==
    [i \in 1..Len(runs) |->
        IF runs[i].doc = d /\ InFlight(runs[i])
        THEN [runs[i] EXCEPT !.overlapped = TRUE] ELSE runs[i]]
    \o <<NewRun(d, origin)>>

Settled(r, outcome) ==
    [r EXCEPT !.pc = "done", !.outcome = outcome, !.document = NoDocument,
              !.result = NoResult, !.summary = NullStr, !.error = NullStr]

\* An exception inside the try block: control moves to the catch block.
Caught(r, message) == [r EXCEPT !.pc = "failDoc", !.error = message]

\* mutant: the run is scheduled without .catch
UnhandledRejectionNoCatch(origin) == TRUE

\* The .catch((error) => console.error(...)) attached where the run is
\* scheduled: a rejection of the run's promise is handled there.
UnhandledRejection(origin) == FALSE

\* An exception inside the catch block rejects the promise of the run.
Rejected(i) ==
    /\ runs' = [runs EXCEPT ![i] = Settled(runs[i], "rejected")]
    /\ crashed' = (crashed \/ UnhandledRejection(runs[i].origin))

RunAt(i, pc) == ~crashed /\ i \in 1..Len(runs) /\ runs[i].pc = pc

\* mutant: the run goes on without writing PROCESSING
SetProcessingSkipped(i) ==
    /\ RunAt(i, "setProcessing")
    /\ runs' = [runs EXCEPT ![i] = IF Exists(runs[i].doc)
                                   THEN [runs[i] EXCEPT !.pc = "load"]
                                   ELSE Caught(runs[i], MsgRecordNotFound)]
    /\ resp' = NoResp /\ llmCall' = NoCall
    /\ UNCHANGED <<docs, ocr, interactions, files, reqs, nextId, llmConfigured, crashed>>

SetProcessing(i) ==
    /\ RunAt(i, "setProcessing")
    /\ LET d == runs[i].doc IN
       IF Exists(d)
       THEN /\ docs' = [docs EXCEPT ![d].uploadStatus = "PROCESSING"]
            /\ runs' = [runs EXCEPT ![i].pc = "load"]
       ELSE /\ runs' = [runs EXCEPT ![i] = Caught(runs[i], MsgRecordNotFound)]
            /\ UNCHANGED docs
    /\ resp' = NoResp /\ llmCall' = NoCall
    /\ UNCHANGED <<ocr, interactions, files, reqs, nextId, llmConfigured, crashed>>

LoadDocument(i) ==
    /\ RunAt(i, "load")
    /\ LET d == runs[i].doc IN
       IF Exists(d)
       THEN runs' = [runs EXCEPT ![i].pc = "upsert",
                                 ![i].document = [filePath |-> docs[d].filePath,
                                                  mimeType |-> docs[d].mimeType]]
       ELSE runs' = [runs EXCEPT ![i] = Caught(runs[i], MsgDocumentNotFound)]
    /\ resp' = NoResp /\ llmCall' = NoCall
    /\ UNCHANGED <<docs, ocr, interactions, files, reqs, nextId, llmConfigured, crashed>>

\* mutant: the created row carries a placeholder text
NewOcrRowWithText ==
    [status |-> "PROCESSING", extractedText |-> <<"p">>, summary |-> NullStr,
     confidence |-> NullNum, processingTime |-> NullNum, error |-> NullStr]

NewOcrRow ==
    [status |-> "PROCESSING", extractedText |-> <<>>, summary |-> NullStr,
     confidence |-> NullNum, processingTime |-> NullNum, error |-> NullStr]

\* mutant: ocr_results has no foreign key to documents
UpsertOcrNoForeignKey(i) ==
    /\ RunAt(i, "upsert")
    /\ LET d == runs[i].doc IN
       /\ ocr' = IF HasOcr(d)
                 THEN [ocr EXCEPT ![d].status = "PROCESSING"]
                 ELSE Put(ocr, d, NewOcrRow)
       /\ runs' = [runs EXCEPT ![i].pc = "extract"]
    /\ resp' = NoResp /\ llmCall' = NoCall
    /\ UNCHANGED <<docs, interactions, files, reqs, nextId, llmConfigured, crashed>>

\* mutant: the run goes on to the extraction without the upsert
UpsertOcrSkipped(i) ==
    /\ RunAt(i, "upsert")
    /\ runs' = [runs EXCEPT ![i] = IF Exists(runs[i].doc)
                                   THEN [runs[i] EXCEPT !.pc = "extract"]
                                   ELSE Caught(runs[i], MsgForeignKey)]
    /\ resp' = NoResp /\ llmCall' = NoCall
    /\ UNCHANGED <<docs, ocr, interactions, files, reqs, nextId, llmConfigured, crashed>>

UpsertOcr(i) ==
    /\ RunAt(i, "upsert")
    /\ LET d == runs[i].doc IN
       IF Exists(d)
       THEN /\ ocr' = IF HasOcr(d)
                      THEN [ocr EXCEPT ![d].status = "PROCESSING"]
                      ELSE Put(ocr, d, NewOcrRow)
            /\ runs' = [runs EXCEPT ![i].pc = "extract"]
       ELSE /\ runs' = [runs EXCEPT ![i] = Caught(runs[i], MsgForeignKey)]
            /\ UNCHANGED ocr
    /\ resp' = NoResp /\ llmCall' = NoCall
    /\ UNCHANGED <<docs, interactions, files, reqs, nextId, llmConfigured, crashed>>

\* await this.ocrService.extractText(...), the engine answering one of
\* the given outcomes
ExtractWith(i, engines) ==
    /\ RunAt(i, "extract")
    /\ \E engine \in engines :
        LET doc == runs[i].document
            res == extractText(doc.filePath, doc.mimeType,
                               doc.filePath \in files, engine)
            left == liveWorkers(doc.filePath, doc.mimeType,
                                doc.filePath \in files, engine)
        IN  runs' = IF ~res.ok
                    THEN [runs EXCEPT ![i] = [Caught(runs[i], res.message)
                                                 EXCEPT !.workers = left]]
                    ELSE [runs EXCEPT ![i].result = res,
                                      ![i].workers = left,
                                      ![i].pc = IF Len(Trim(res.text)) > 0
                                                THEN "summary" ELSE "updateOcr"]
    /\ resp' = NoResp /\ llmCall' = NoCall
    /\ UNCHANGED <<docs, ocr, interactions, files, reqs, nextId, llmConfigured, crashed>>

Extract(i) == ExtractWith(i, EngineOutcomes)

SummarySlice == 3000
SummaryMax == 150

IsQuote(c) == c = "\"" \/ c = "'"

\* mutant: the summary is stored as cleaned, whatever its length
CleanSummaryUncut(text) ==
    LET a == IF text # <<>> /\ IsQuote(Head(text)) THEN Tail(text) ELSE text
        b == IF a # <<>> /\ IsQuote(a[Len(a)]) THEN SubSeq(a, 1, Len(a) - 1) ELSE a
    IN  Trim(b)

\* .replace(/^["']|["']$/g, '').trim().substring(0, 150)
CleanSummary(text) ==
    LET a == IF text # <<>> /\ IsQuote(Head(text)) THEN Tail(text) ELSE text
        b == IF a # <<>> /\ IsQuote(a[Len(a)]) THEN SubSeq(a, 1, Len(a) - 1) ELSE a
    IN  Substring(Trim(b), 0, SummaryMax)

SummaryPrompt == <<"summarise in one sentence">>

\* mutant: a failing summary call is not caught
SummaryFatal(i) ==
    /\ RunAt(i, "summary")
    /\ \E api \in ApiOutcomes :
        LET r == generateExplanation(llmConfigured, api) IN
        /\ runs' = IF r.ok
                    THEN [runs EXCEPT ![i].pc = "updateOcr",
                                      ![i].summary = CleanSummary(r.text)]
                    ELSE [runs EXCEPT ![i] = Caught(runs[i], r.message)]
        /\ llmCall' = IF llmConfigured
                      THEN ExplanationCall(
                               Substring(runs[i].result.text, 0, SummarySlice),
                               SummaryPrompt)
                      ELSE NoCall
    /\ resp' = NoResp
    /\ UNCHANGED <<docs, ocr, interactions, files, reqs, nextId, llmConfigured, crashed>>

\* Reached only when the extracted text is not blank; the API answers one
\* of the given outcomes.
SummaryWith(i, apis) ==
    /\ RunAt(i, "summary")
    /\ \E api \in apis :
        LET r == generateExplanation(llmConfigured, api) IN
        /\ runs' = [runs EXCEPT ![i].pc = "updateOcr",
                                ![i].summary = IF r.ok THEN CleanSummary(r.text)
                                               ELSE NullStr]
        /\ llmCall' = IF llmConfigured
                      THEN ExplanationCall(
                               Substring(runs[i].result.text, 0, SummarySlice),
                               SummaryPrompt)
                      ELSE NoCall
    /\ resp' = NoResp
    /\ UNCHANGED <<docs, ocr, interactions, files, reqs, nextId, llmConfigured, crashed>>

Summary(i) == SummaryWith(i, ApiOutcomes)

\* mutant: the final update forgets status: 'COMPLETED'
CompletedRowKeepsStatus(row, result, summary) ==
    [row EXCEPT !.extractedText = result.text,
                !.summary = IF summary # NullStr /\ summary # <<>>
                            THEN summary ELSE row.summary,
                !.confidence = result.confidence,
                !.processingTime = result.processingTime]

\* data: { extractedText, ...(summary && { summary }), confidence,
\*         processingTime, status }
CompletedRow(row, result, summary) ==
    [row EXCEPT !.extractedText = result.text,
                !.summary = IF summary # NullStr /\ summary # <<>>
                            THEN summary ELSE row.summary,
                !.confidence = result.confidence,
                !.processingTime = result.processingTime,
                !.status = "COMPLETED"]

UpdateOcrCompleted(i) ==
    /\ RunAt(i, "updateOcr")
    /\ LET d == runs[i].doc IN
       IF HasOcr(d)
       THEN /\ ocr' = [ocr EXCEPT ![d] = CompletedRow(ocr[d], runs[i].result,
                                                       runs[i].summary)]
            /\ runs' = [runs EXCEPT ![i].pc = "setCompleted"]
       ELSE /\ runs' = [runs EXCEPT ![i] = Caught(runs[i], MsgRecordNotFound)]
            /\ UNCHANGED ocr
    /\ resp' = NoResp /\ llmCall' = NoCall
    /\ UNCHANGED <<docs, interactions, files, reqs, nextId, llmConfigured, crashed>>

SetCompleted(i) ==
    /\ RunAt(i, "setCompleted")
    /\ LET d == runs[i].doc IN
       IF Exists(d)
       THEN /\ docs' = [docs EXCEPT ![d].uploadStatus = "COMPLETED"]
            /\ runs' = [runs EXCEPT ![i] = Settled(runs[i], "fulfilled")]
       ELSE /\ runs' = [runs EXCEPT ![i] = Caught(runs[i], MsgRecordNotFound)]
            /\ UNCHANGED docs
    /\ resp' = NoResp /\ llmCall' = NoCall
    /\ UNCHANGED <<ocr, interactions, files, reqs, nextId, llmConfigured, crashed>>

\* catch block, first statement: document.update({ uploadStatus: 'FAILED' })
FailDoc(i) ==
    /\ RunAt(i, "failDoc")
    /\ LET d == runs[i].doc IN
       IF Exists(d)
       THEN /\ docs' = [docs EXCEPT ![d].uploadStatus = "FAILED"]
            /\ runs' = [runs EXCEPT ![i].pc = "failOcr"]
            /\ UNCHANGED crashed
       ELSE /\ Rejected(i)
            /\ UNCHANGED docs
    /\ resp' = NoResp /\ llmCall' = NoCall
    /\ UNCHANGED <<ocr, interactions, files, reqs, nextId, llmConfigured>>

\* mutant: the captured error is dropped
FailureMessageUnknown(error) == <<"Unknown error">>

\* error instanceof Error ? error.message : 'Unknown error'
FailureMessage(error) == error

\* mutant: the failure update records status: 'FAILED' but not the error
FailOcrWriteStatusOnly(d, message) ==
    IF HasOcr(d)
    THEN [ok |-> TRUE, rows |-> [ocr EXCEPT ![d].status = "FAILED"]]
    ELSE [ok |-> FALSE, rows |-> ocr]

\* mutant: the failure update records the error but not status: 'FAILED'
FailOcrWriteErrorOnly(d, message) ==
    IF HasOcr(d)
    THEN [ok |-> TRUE, rows |-> [ocr EXCEPT ![d].error = message]]
    ELSE [ok |-> FALSE, rows |-> ocr]

\* catch block, second statement: oCRResult.update({ status: 'FAILED', error })
\* update, not upsert: it throws when the row is not there.
FailOcrWrite(d, message) ==
    IF HasOcr(d)
    THEN [ok |-> TRUE,
          rows |-> [ocr EXCEPT ![d].status = "FAILED", ![d].error = message]]
    ELSE [ok |-> FALSE, rows |-> ocr]

FailOcr(i) ==
    /\ RunAt(i, "failOcr")
    /\ LET w == FailOcrWrite(runs[i].doc, FailureMessage(runs[i].error)) IN
       /\ ocr' = w.rows
       /\ IF w.ok
          THEN /\ runs' = [runs EXCEPT ![i] = Settled(runs[i], "fulfilled")]
               /\ UNCHANGED crashed
          ELSE Rejected(i)
    /\ resp' = NoResp /\ llmCall' = NoCall
    /\ UNCHANGED <<docs, interactions, files, reqs, nextId, llmConfigured>>

\* ------------------------------------------------------------- submit
NewDocument(id, userId, upload) ==
    [userId |-> userId, uploadStatus |-> "PENDING", mimeType |-> upload.mimeType,
     filePath |-> [name |-> id, ext |-> upload.ext]]

Returned(op, document) ==
    [op |-> op, kind |-> "ok", msg |-> <<>>, uploadStatus |-> document.uploadStatus]

\* mutant: submit awaits the first step of the run before it returns
createDocumentAwaitsRun(userId, upload) ==
    /\ ~crashed
    /\ nextId <= MaxDocs
    /\ Len(runs) < MaxRuns
    /\ LET id == nextId
           document == [NewDocument(id, userId, upload)
                           EXCEPT !.uploadStatus = "PROCESSING"]
       IN  /\ docs' = Put(docs, id, document)
           /\ files' = files \cup {document.filePath}
           /\ runs' = runs \o <<[NewRun(id, "submit") EXCEPT !.pc = "load"]>>
           /\ resp' = Returned("createDocument", document)
    /\ nextId' = nextId + 1
    /\ llmCall' = NoCall
    /\ UNCHANGED <<ocr, interactions, reqs, llmConfigured, crashed>>

\* DocumentsController.uploadFile + DocumentsService.createDocument: the
\* file is on disk (multer), the row is created, the run is scheduled and
\* the created row is returned.
createDocument(userId, upload) ==
    /\ ~crashed
    /\ nextId <= MaxDocs
    /\ Len(runs) < MaxRuns
    /\ LET id == nextId
           document == NewDocument(id, userId, upload)
       IN  /\ docs' = Put(docs, id, document)
           /\ files' = files \cup {document.filePath}
           /\ runs' = Schedule(id, "submit")
           /\ resp' = Returned("createDocument", document)
    /\ nextId' = nextId + 1
    /\ llmCall' = NoCall
    /\ UNCHANGED <<ocr, interactions, reqs, llmConfigured, crashed>>


\* ------------------------------------------------------------- findOne
NoOcrRow ==
    [status |-> "NONE", extractedText |-> <<>>, summary |-> NullStr,
     confidence |-> NullNum, processingTime |-> NullNum, error |-> NullStr]
NoDocRow ==
    [userId |-> "", uploadStatus |-> "", mimeType |-> "",
     filePath |-> [name |-> 0, ext |-> ""]]
NoSnap == [document |-> NoDocRow, ocrResult |-> NoOcrRow, llmInteractions |-> <<>>]

Fail(kind, msg) == [kind |-> kind, msg |-> msg, snap |-> NoSnap]

RECURSIVE InteractionsOf(_, _)
\* the rows of one document, oldest first
InteractionsOf(rows, d) ==
    IF rows = <<>> THEN <<>>
    ELSE (IF Head(rows).documentId = d THEN <<Head(rows)>> ELSE <<>>)
         \o InteractionsOf(Tail(rows), d)

\* mutant: the interactions are included in creation order
IncludedOldestFirst(id) ==
    [document |-> docs[id],
     ocrResult |-> IF HasOcr(id) THEN ocr[id] ELSE NoOcrRow,
     llmInteractions |-> InteractionsOf(interactions, id)]

\* include: { ocrResult: true, llmInteractions: { orderBy: createdAt desc } }
Included(id) ==
    [document |-> docs[id],
     ocrResult |-> IF HasOcr(id) THEN ocr[id] ELSE NoOcrRow,
     llmInteractions |-> Reverse(InteractionsOf(interactions, id))]

\* mutant: the caller is not compared with the owner
OwnerCheckSkipped(document, userId) == TRUE

OwnerCheck(document, userId) == document.userId = userId

findOne(id, userId) ==
    IF ~Exists(id) THEN Fail("NotFound", MsgDocumentNotFound)
    ELSE IF ~OwnerCheck(docs[id], userId) THEN Fail("Forbidden", MsgAccessDenied)
    ELSE [kind |-> "ok", msg |-> <<>>, snap |-> Included(id)]

\* _count: { select: { llmInteractions: true } }
CountOf(rows, d) == Cardinality({k \in 1..Len(rows) : rows[k].documentId = d})

\* DocumentsService.findAll: the caller's documents, each with its result
\* and the number of its interactions
findAll(userId) ==
    [d \in {x \in DOMAIN docs : docs[x].userId = userId} |->
        [document |-> docs[d],
         ocrResult |-> IF HasOcr(d) THEN ocr[d] ELSE NoOcrRow,
         count |-> CountOf(interactions, d)]]

\* What the HTTP caller receives when a handler throws.
Thrown(op, kind, msg) == [op |-> op, kind |-> kind, msg |-> msg, uploadStatus |-> ""]
Done(op) == [op |-> op, kind |-> "ok", msg |-> <<>>, uploadStatus |-> ""]

\* ------------------------------------------------------------- requests
Req(op, pc, d, u, arg, snap) ==
    [op |-> op, pc |-> pc, doc |-> d, user |-> u, arg |-> arg, snap |-> snap,
     prev |-> <<>>]
FreeReq == Req("none", "", 0, "", <<>>, NoSnap)

Free(s) == reqs[s].op = "none"
\* a new request takes the first free slot
Takes(s) == ~crashed /\ Free(s) /\ \A t \in DOMAIN reqs : t < s => ~Free(t)
At(s, op, pc) == ~crashed /\ reqs[s].op = op /\ reqs[s].pc = pc

Pending(ops) == Cardinality({s \in DOMAIN reqs : reqs[s].op \in ops})
\* room for one more interaction row / one more run within the bounds
RoomForInteraction ==
    Len(interactions) + Pending({"explain", "query"}) < MaxInteractions
RoomForRun == Len(runs) + Pending({"reprocess"}) < MaxRuns

Contexts == {<<>>, <<"c">>}
Questions == {<<"q">>}

\* A handler whose synchronous checks throw: the exception is the value of
\* its check operator; nothing is stored and nothing is sent.
Refused == UNCHANGED <<resp, llmCall>>

\* GET /documents/:id: a read; its value is getCheck's.
getCheck(id, userId) == findOne(id, userId)

getDocument(id, userId) ==
    /\ ~crashed
    /\ getCheck(id, userId).kind \in {"ok", "NotFound", "Forbidden"}
    /\ UNCHANGED vars

\* GET /documents: a read; its value is findAll's.
listDocuments(userId) ==
    /\ ~crashed
    /\ DOMAIN findAll(userId) \subseteq DOMAIN docs
    /\ UNCHANGED vars

\* mutant: a result that is still being produced counts as ready
ReadyWhileProcessing(ocrResult) == ocrResult.status \in {"COMPLETED", "PROCESSING"}

Ready(ocrResult) == ocrResult.status = "COMPLETED"

\* if (!document.ocrResult || document.ocrResult.status !== 'COMPLETED')
ReadyCheck(f) ==
    IF f.kind # "ok" THEN f
    ELSE IF ~Ready(f.snap.ocrResult) THEN Fail("BadRequest", MsgNotReady)
    ELSE f

\* the synchronous checks of explainDocument: what they throw, or "ok"
explainCheck(id, userId) == ReadyCheck(findOne(id, userId))

\* explainDocument up to the call of the assistant
explainBegin(s, id, userId, context) ==
    /\ Takes(s)
    /\ LET f == explainCheck(id, userId) IN
       IF f.kind # "ok" THEN Refused /\ UNCHANGED reqs
       ELSE /\ reqs' = [reqs EXCEPT ![s] =
                          Req("explain", "llm", id, userId, context,
                              [NoSnap EXCEPT !.ocrResult = f.snap.ocrResult])]
            /\ resp' = NoResp /\ llmCall' = NoCall
    /\ UNCHANGED <<docs, ocr, interactions, files, runs, nextId, llmConfigured,
                   crashed>>

explainStart(s, id, userId, context) ==
    RoomForInteraction /\ explainBegin(s, id, userId, context)

\* mutant: every row is stored with type QUERY
InteractionAsQuery(d, type, prompt, response) ==
    [documentId |-> d, type |-> "QUERY", prompt |-> prompt, response |-> response]

Interaction(d, type, prompt, response) ==
    [documentId |-> d, type |-> type, prompt |-> prompt, response |-> response]

\* mutant: the readiness check is repeated before the row is created
explainFinishRechecks(s) ==
    /\ At(s, "explain", "llm")
    /\ \E api \in ApiOutcomes :
        LET q == reqs[s]
            r == generateExplanation(llmConfigured, api)
        IN  /\ llmCall' = IF llmConfigured
                          THEN ExplanationCall(q.snap.ocrResult.extractedText, q.arg)
                          ELSE NoCall
            /\ IF ~r.ok
               THEN resp' = Thrown("explain", "InternalError", r.message)
                    /\ UNCHANGED interactions
               ELSE IF ~Exists(q.doc)
               THEN resp' = Thrown("explain", "InternalError", MsgForeignKey)
                    /\ UNCHANGED interactions
               ELSE IF ~(HasOcr(q.doc) /\ Ready(ocr[q.doc]))
               THEN resp' = Thrown("explain", "BadRequest", MsgNotReady)
                    /\ UNCHANGED interactions
               ELSE /\ interactions' = Append(interactions,
                          Interaction(q.doc, "EXPLANATION",
                              IF q.arg # <<>> THEN q.arg
                              ELSE <<"Explain this document">>, r.text))
                    /\ resp' = Done("explain")
    /\ reqs' = [reqs EXCEPT ![s] = FreeReq]
    /\ UNCHANGED <<docs, ocr, files, runs, nextId, llmConfigured, crashed>>

\* the assistant answers (or not) and lLMInteraction.create runs
explainFinish(s) ==
    /\ At(s, "explain", "llm")
    /\ \E api \in ApiOutcomes :
        LET q == reqs[s]
            r == generateExplanation(llmConfigured, api)
        IN  /\ llmCall' = IF llmConfigured
                          THEN ExplanationCall(q.snap.ocrResult.extractedText, q.arg)
                          ELSE NoCall
            /\ IF ~r.ok
               THEN resp' = Thrown("explain", "InternalError", r.message)
                    /\ UNCHANGED interactions
               ELSE IF ~Exists(q.doc)
               THEN resp' = Thrown("explain", "InternalError", MsgForeignKey)
                    /\ UNCHANGED interactions
               ELSE /\ interactions' = Append(interactions,
                          Interaction(q.doc, "EXPLANATION",
                              IF q.arg # <<>> THEN q.arg
                              ELSE <<"Explain this document">>, r.text))
                    /\ resp' = Done("explain")
    /\ reqs' = [reqs EXCEPT ![s] = FreeReq]
    /\ UNCHANGED <<docs, ocr, files, runs, nextId, llmConfigured, crashed>>


HistoryTake == 5

\* queryDocument up to the load of the previous interactions
queryCheck(id, userId) == ReadyCheck(findOne(id, userId))

queryBegin(s, id, userId, query) ==
    /\ Takes(s)
    /\ LET f == queryCheck(id, userId) IN
       IF f.kind # "ok" THEN Refused /\ UNCHANGED reqs
       ELSE /\ reqs' = [reqs EXCEPT ![s] =
                          Req("query", "history", id, userId, query,
                              [NoSnap EXCEPT !.ocrResult = f.snap.ocrResult])]
            /\ resp' = NoResp /\ llmCall' = NoCall
    /\ UNCHANGED <<docs, ocr, interactions, files, runs, nextId, llmConfigured,
                   crashed>>

queryStart(s, id, userId, query) ==
    RoomForInteraction /\ queryBegin(s, id, userId, query)

\* findMany({ where: { documentId }, orderBy: createdAt desc, take: 5 })
queryHistory(s) ==
    /\ At(s, "query", "history")
    /\ reqs' = [reqs EXCEPT ![s].pc = "llm",
                            ![s].prev = Substring(
                                Reverse(InteractionsOf(interactions, reqs[s].doc)),
                                0, HistoryTake)]
    /\ resp' = NoResp /\ llmCall' = NoCall
    /\ UNCHANGED <<docs, ocr, interactions, files, runs, nextId, llmConfigured,
                   crashed>>

\* mutant: a failed call is recorded as an interaction with no answer
queryFinishRecordsFailure(s) ==
    /\ At(s, "query", "llm")
    /\ \E api \in ApiOutcomes :
        LET q == reqs[s]
            r == answerQuery(llmConfigured, api)
        IN  /\ llmCall' = IF llmConfigured
                          THEN QueryCall(q.snap.ocrResult.extractedText, q.arg, q.prev)
                          ELSE NoCall
            /\ IF ~Exists(q.doc)
               THEN resp' = Thrown("query", "InternalError", MsgForeignKey)
                    /\ UNCHANGED interactions
               ELSE /\ interactions' = Append(interactions,
                          Interaction(q.doc, "QUERY", q.arg, r.text))
                    /\ resp' = IF r.ok THEN Done("query")
                               ELSE Thrown("query", "InternalError", r.message)
    /\ reqs' = [reqs EXCEPT ![s] = FreeReq]
    /\ UNCHANGED <<docs, ocr, files, runs, nextId, llmConfigured, crashed>>

queryFinish(s) ==
    /\ At(s, "query", "llm")
    /\ \E api \in ApiOutcomes :
        LET q == reqs[s]
            r == answerQuery(llmConfigured, api)
        IN  /\ llmCall' = IF llmConfigured
                          THEN QueryCall(q.snap.ocrResult.extractedText, q.arg, q.prev)
                          ELSE NoCall
            /\ IF ~r.ok
               THEN resp' = Thrown("query", "InternalError", r.message)
                    /\ UNCHANGED interactions
               ELSE IF ~Exists(q.doc)
               THEN resp' = Thrown("query", "InternalError", MsgForeignKey)
                    /\ UNCHANGED interactions
               ELSE /\ interactions' = Append(interactions,
                          Interaction(q.doc, "QUERY", q.arg, r.text))
                    /\ resp' = Done("query")
    /\ reqs' = [reqs EXCEPT ![s] = FreeReq]
    /\ UNCHANGED <<docs, ocr, files, runs, nextId, llmConfigured, crashed>>

\* ------------------------------------------------------------- download
\* DocumentsController.download: whatever downloadDocument throws is
\* rethrown as a BadRequestException.
\* mutant: the rethrown error does not carry the cause
DownloadCatchGeneric(f) ==
    IF f.kind = "ok" THEN f
    ELSE Fail("BadRequest", <<"Failed to create download">>)

DownloadCatch(f) ==
    IF f.kind = "ok" THEN f
    ELSE Fail("BadRequest", <<"Failed to create download: ">> \o f.msg)

downloadCheck(id, userId) == DownloadCatch(findOne(id, userId))

downloadStart(s, id, userId) ==
    /\ Takes(s)
    /\ LET f == downloadCheck(id, userId) IN
       IF f.kind # "ok" THEN Refused /\ UNCHANGED reqs
       ELSE /\ reqs' = [reqs EXCEPT ![s] =
                          Req("download", "read", id, userId, <<>>, f.snap)]
            /\ resp' = NoResp /\ llmCall' = NoCall
    /\ UNCHANGED <<docs, ocr, interactions, files, runs, nextId, llmConfigured,
                   crashed>>

\* ---- the text report of downloadDocument
\* A text is a sequence of pieces; every line ends with "\n".  The lines
\* that print fields the model does not carry (name, size, dates, model,
\* tokens) and the rules between sections are left out.

\* n.toFixed(2) of a number given in hundredths
ToFixed2(hundredths) ==
    <<ToString(hundredths \div 100), ".",
      IF hundredths % 100 < 10 THEN "0" ELSE "",
      ToString(hundredths % 100)>>

\* JavaScript truthiness of a nullable number / a nullable string
TruthyNum(n) == n # NullNum /\ n # 0
TruthyStr(t) == t # NullStr /\ t # <<>>

ReportHeader(document) ==
    <<"DOCUMENT INFORMATION", "\n",
      "File Type: ", document.mimeType, "\n",
      "Status: ", document.uploadStatus, "\n">>

\* if (ocrResult.confidence) { OCR Confidence ... Processing Time ... }
ConfidenceLines(ocrResult) ==
    IF TruthyNum(ocrResult.confidence)
    THEN <<"OCR Confidence: ">> \o ToFixed2(ocrResult.confidence * 100)
         \o <<"%", "\n", "Processing Time: ">>
         \o (IF TruthyNum(ocrResult.processingTime)
             THEN ToFixed2((ocrResult.processingTime + 5) \div 10) \o <<"s">>
             ELSE <<"N/A">>)
         \o <<"\n">>
    ELSE <<>>

\* ocrResult is NoOcrRow (status NONE) when the document has no row
ExtractionSection(ocrResult) ==
    IF ocrResult.status = "COMPLETED"
    THEN <<"EXTRACTED TEXT (OCR)", "\n">>
         \o ConfidenceLines(ocrResult)
         \o (IF TruthyStr(ocrResult.summary)
             THEN <<"Summary: ">> \o ocrResult.summary \o <<"\n">> ELSE <<>>)
         \o ocrResult.extractedText \o <<"\n">>
    ELSE IF ocrResult.status = "FAILED"
    THEN <<"OCR STATUS: FAILED", "\n">>
         \o (IF TruthyStr(ocrResult.error)
             THEN <<"Error: ">> \o ocrResult.error \o <<"\n">> ELSE <<>>)
    ELSE <<>>

\* the body of llmInteractions.forEach((interaction, index) => ...)
InteractionEntry(interaction, index) ==
    <<"Interaction #", ToString(index + 1), " - ", interaction.type, "\n">>
    \o (IF interaction.type = "QUERY"
        THEN <<"QUESTION:", "\n">> \o interaction.prompt \o <<"\n">>
        ELSE <<>>)
    \o <<"RESPONSE:", "\n">> \o interaction.response \o <<"\n">>

RECURSIVE InteractionEntries(_, _)
InteractionEntries(llmInteractions, index) ==
    IF index >= Len(llmInteractions) THEN <<>>
    ELSE InteractionEntry(llmInteractions[index + 1], index)
         \o InteractionEntries(llmInteractions, index + 1)

NoInteractionsLine == "No AI interactions yet."

InteractionsSection(llmInteractions) ==
    IF Len(llmInteractions) > 0
    THEN <<"AI INTERACTIONS (", ToString(Len(llmInteractions)), " total)", "\n">>
         \o InteractionEntries(llmInteractions, 0)
    ELSE <<"AI INTERACTIONS", "\n", NoInteractionsLine, "\n",
           "You can generate explanations or ask questions about this document.",
           "\n">>

\* document.originalName: the extension is the one kept in the stored name
OriginalName(document) == <<"original", document.filePath.ext>>

\* what downloadDocument returns when the file could be read; the content
\* of a stored file is identified with its path
downloadDocument(snap) ==
    [fileContent |-> snap.document.filePath,
     fileName |-> OriginalName(snap.document),
     textContent |-> ReportHeader(snap.document)
                     \o ExtractionSection(snap.ocrResult)
                     \o InteractionsSection(snap.llmInteractions),
     mimeType |-> snap.document.mimeType]

\* fileName.replace(/\.[^/.]+$/, '')
BaseFileName(fileName) == SubSeq(fileName, 1, Len(fileName) - 1)

\* mutant: only the original file is appended
ArchiveFileOnly(download) ==
    << [name |-> download.fileName, content |-> download.fileContent] >>

\* the two archive.append calls of the controller
Archive(download) ==
    << [name |-> download.fileName, content |-> download.fileContent],
       [name |-> BaseFileName(download.fileName) \o <<"_extracted_data.txt">>,
        content |-> download.textContent] >>

\* the zip streamed to the caller
Downloaded(snap) ==
    [op |-> "download", kind |-> "ok", msg |-> <<>>,
     uploadStatus |-> snap.document.uploadStatus,
     archive |-> Archive(downloadDocument(snap))]

\* fs.access + fs.readFile, then the archive of two entries
downloadRead(s) ==
    /\ At(s, "download", "read")
    /\ resp' = IF reqs[s].snap.document.filePath \in files
               THEN Downloaded(reqs[s].snap)
               ELSE LET e == DownloadCatch(Fail("NotFound",
                                 <<"File not found on server">>))
                    IN  Thrown("download", e.kind, e.msg)
    /\ reqs' = [reqs EXCEPT ![s] = FreeReq]
    /\ llmCall' = NoCall
    /\ UNCHANGED <<docs, ocr, interactions, files, runs, nextId, llmConfigured,
                   crashed>>

\* ------------------------------------------------------------- delete
\* deleteDocument up to document.delete: findOne, then the file is
\* unlinked when it is there; a failing unlink is logged and ignored.
deleteCheck(id, userId) == findOne(id, userId)

\* mutant: a failing unlink is not caught
deleteStartUnlinkFatal(s, id, userId) ==
    /\ Takes(s)
    /\ LET f == deleteCheck(id, userId) IN
       IF f.kind # "ok" THEN Refused /\ UNCHANGED <<reqs, files>>
       ELSE \E unlinkOk \in BOOLEAN :
            IF unlinkOk
            THEN /\ reqs' = [reqs EXCEPT ![s] =
                               Req("delete", "delete", id, userId, <<>>,
                                   [NoSnap EXCEPT !.document = f.snap.document])]
                 /\ files' = files \ {f.snap.document.filePath}
                 /\ resp' = NoResp /\ llmCall' = NoCall
            ELSE /\ resp' = Thrown("delete", "InternalError", <<"EPERM">>)
                 /\ llmCall' = NoCall
                 /\ UNCHANGED <<reqs, files>>
    /\ UNCHANGED <<docs, ocr, interactions, runs, nextId, llmConfigured, crashed>>

deleteStart(s, id, userId) ==
    /\ Takes(s)
    /\ LET f == deleteCheck(id, userId) IN
       IF f.kind # "ok" THEN Refused /\ UNCHANGED <<reqs, files>>
       ELSE /\ reqs' = [reqs EXCEPT ![s] =
                          Req("delete", "delete", id, userId, <<>>,
                              [NoSnap EXCEPT !.document = f.snap.document])]
            /\ \E unlinkOk \in BOOLEAN :
                 files' = IF unlinkOk THEN files \ {f.snap.document.filePath}
                          ELSE files
            /\ resp' = NoResp /\ llmCall' = NoCall
    /\ UNCHANGED <<docs, ocr, interactions, runs, nextId, llmConfigured, crashed>>

\* mutant: the interactions of the deleted document stay
WithoutNothing(rows, d) == rows

\* mutant: the delete empties the whole table
WithoutAll(rows, d) == <<>>

RECURSIVE Without(_, _)
\* ON DELETE CASCADE of llm_interactions_documentId_fkey
Without(rows, d) ==
    IF rows = <<>> THEN <<>>
    ELSE (IF Head(rows).documentId = d THEN <<>> ELSE <<Head(rows)>>)
         \o Without(Tail(rows), d)

deleteFinish(s) ==
    /\ At(s, "delete", "delete")
    /\ LET d == reqs[s].doc IN
       IF Exists(d)
       THEN /\ docs' = Drop(docs, d)
            /\ ocr' = IF HasOcr(d) THEN Drop(ocr, d) ELSE ocr
            /\ interactions' = Without(interactions, d)
            /\ resp' = Done("delete")
       ELSE /\ resp' = Thrown("delete", "InternalError", MsgRecordNotFound)
            /\ UNCHANGED <<docs, ocr, interactions>>
    /\ reqs' = [reqs EXCEPT ![s] = FreeReq]
    /\ llmCall' = NoCall
    /\ UNCHANGED <<files, runs, nextId, llmConfigured, crashed>>

\* ------------------------------------------------------------- reprocess
\* mutant: a reprocess is refused while a run of the document is in flight
reprocessCheckRefusesBusy(id, userId) ==
    IF findOne(id, userId).kind = "ok" /\ ActiveRunsOf(id) # {}
    THEN Fail("Conflict", <<"OCR processing in progress">>)
    ELSE findOne(id, userId)

reprocessCheck(id, userId) == findOne(id, userId)

\* reprocessOCR up to oCRResult.deleteMany
reprocessBegin(s, id, userId) ==
    /\ Takes(s)
    /\ LET f == reprocessCheck(id, userId) IN
       IF f.kind # "ok" THEN Refused /\ UNCHANGED reqs
       ELSE /\ reqs' = [reqs EXCEPT ![s] =
                          Req("reprocess", "deleteMany", id, userId, <<>>, NoSnap)]
            /\ resp' = NoResp /\ llmCall' = NoCall
    /\ UNCHANGED <<docs, ocr, interactions, files, runs, nextId, llmConfigured,
                   crashed>>

reprocessStart(s, id, userId) == RoomForRun /\ reprocessBegin(s, id, userId)

\* mutant: the prior result is not deleted
reprocessFinishKeepsRow(s) ==
    /\ At(s, "reprocess", "deleteMany")
    /\ runs' = Schedule(reqs[s].doc, "reprocess")
    /\ resp' = Done("reprocess")
    /\ reqs' = [reqs EXCEPT ![s] = FreeReq]
    /\ llmCall' = NoCall
    /\ UNCHANGED <<docs, ocr, interactions, files, nextId, llmConfigured, crashed>>

\* mutant: the handler itself puts the document back to PENDING
reprocessFinishResetsStatus(s) ==
    /\ At(s, "reprocess", "deleteMany")
    /\ LET d == reqs[s].doc IN
       /\ ocr' = IF HasOcr(d) THEN Drop(ocr, d) ELSE ocr
       /\ docs' = IF Exists(d) THEN [docs EXCEPT ![d].uploadStatus = "PENDING"]
                  ELSE docs
       /\ runs' = Schedule(d, "reprocess")
    /\ resp' = Done("reprocess")
    /\ reqs' = [reqs EXCEPT ![s] = FreeReq]
    /\ llmCall' = NoCall
    /\ UNCHANGED <<interactions, files, nextId, llmConfigured, crashed>>

\* mutant: the handler marks the document PROCESSING before it returns
reprocessFinishMarksProcessing(s) ==
    /\ At(s, "reprocess", "deleteMany")
    /\ LET d == reqs[s].doc IN
       /\ ocr' = IF HasOcr(d) THEN Drop(ocr, d) ELSE ocr
       /\ docs' = IF Exists(d) THEN [docs EXCEPT ![d].uploadStatus = "PROCESSING"]
                  ELSE docs
       /\ runs' = Schedule(d, "reprocess")
    /\ resp' = Done("reprocess")
    /\ reqs' = [reqs EXCEPT ![s] = FreeReq]
    /\ llmCall' = NoCall
    /\ UNCHANGED <<interactions, files, nextId, llmConfigured, crashed>>

\* mutant: the interactions of the document are deleted with its result
reprocessFinishClearsInteractions(s) ==
    /\ At(s, "reprocess", "deleteMany")
    /\ LET d == reqs[s].doc IN
       /\ ocr' = IF HasOcr(d) THEN Drop(ocr, d) ELSE ocr
       /\ interactions' = Without(interactions, d)
       /\ runs' = Schedule(d, "reprocess")
    /\ resp' = Done("reprocess")
    /\ reqs' = [reqs EXCEPT ![s] = FreeReq]
    /\ llmCall' = NoCall
    /\ UNCHANGED <<docs, files, nextId, llmConfigured, crashed>>

\* oCRResult.deleteMany, then the run is scheduled and the handler returns
reprocessFinish(s) ==
    /\ At(s, "reprocess", "deleteMany")
    /\ LET d == reqs[s].doc IN
       /\ ocr' = IF HasOcr(d) THEN Drop(ocr, d) ELSE ocr
       /\ runs' = Schedule(d, "reprocess")
    /\ resp' = Done("reprocess")
    /\ reqs' = [reqs EXCEPT ![s] = FreeReq]
    /\ llmCall' = NoCall
    /\ UNCHANGED <<docs, interactions, files, nextId, llmConfigured, crashed>>

\* ------------------------------------------------------------- behaviours
Init ==
    /\ docs = <<>>
    /\ ocr = <<>>
    /\ interactions = <<>>
    /\ files = {}
    /\ runs = <<>>
    /\ reqs = [s \in Slots |-> FreeReq]
    /\ resp = NoResp
    /\ llmCall = NoCall
    /\ nextId = 1
    /\ llmConfigured \in BOOLEAN
    /\ crashed = FALSE


Next ==
    \/ \E u \in Uploaders, up \in Uploads : createDocument(u, up)
    \/ \E i \in 1..MaxRuns : SetProcessing(i)
    \/ \E i \in 1..MaxRuns : LoadDocument(i)
    \/ \E i \in 1..MaxRuns : UpsertOcr(i)
    \/ \E i \in 1..MaxRuns : Extract(i)
    \/ \E i \in 1..MaxRuns : Summary(i)
    \/ \E i \in 1..MaxRuns : UpdateOcrCompleted(i)
    \/ \E i \in 1..MaxRuns : SetCompleted(i)
    \/ \E i \in 1..MaxRuns : FailDoc(i)
    \/ \E i \in 1..MaxRuns : FailOcr(i)
    \/ \E d \in DocIds, u \in Users : getDocument(d, u)
    \/ \E u \in Users : listDocuments(u)
    \/ \E s \in Slots, d \in DocIds, u \in Users, c \in Contexts :
          explainStart(s, d, u, c)
    \/ \E s \in Slots : explainFinish(s)
    \/ \E s \in Slots, d \in DocIds, u \in Users, q \in Questions :
          queryStart(s, d, u, q)
    \/ \E s \in Slots : queryHistory(s)
    \/ \E s \in Slots : queryFinish(s)
    \/ \E s \in Slots, d \in DocIds, u \in Users : downloadStart(s, d, u)
    \/ \E s \in Slots : downloadRead(s)
    \/ \E s \in Slots, d \in DocIds, u \in Users : deleteStart(s, d, u)
    \/ \E s \in Slots : deleteFinish(s)
    \/ \E s \in Slots, d \in DocIds, u \in Users : reprocessStart(s, d, u)
    \/ \E s \in Slots : reprocessFinish(s)

Spec == Init /\ [][Next]_vars

\* The pipeline alone: one document, submitted once and reprocessed while
\* earlier runs may still be in flight.
MaxPipelineRuns == 3

reprocessAgain(s, id, userId) ==
    /\ Len(runs) + Pending({"reprocess"}) < MaxPipelineRuns
    /\ reprocessBegin(s, id, userId)

PipelineNext ==
    \/ \E u \in Uploaders, up \in Uploads : createDocument(u, up)
    \/ \E i \in 1..MaxPipelineRuns : SetProcessing(i)
    \/ \E i \in 1..MaxPipelineRuns : LoadDocument(i)
    \/ \E i \in 1..MaxPipelineRuns : UpsertOcr(i)
    \/ \E i \in 1..MaxPipelineRuns : Extract(i)
    \/ \E i \in 1..MaxPipelineRuns : Summary(i)
    \/ \E i \in 1..MaxPipelineRuns : UpdateOcrCompleted(i)
    \/ \E i \in 1..MaxPipelineRuns : SetCompleted(i)
    \/ \E i \in 1..MaxPipelineRuns : FailDoc(i)
    \/ \E i \in 1..MaxPipelineRuns : FailOcr(i)
    \/ \E s \in Slots, d \in DocIds, u \in Users : reprocessAgain(s, d, u)
    \/ \E s \in Slots : reprocessFinish(s)

PipelineSpec == Init /\ [][PipelineNext]_vars

\* The interaction log: two processed documents with a history of prior
\* explain / query calls, and the operations that read or change the log.
MaxHistory == 7       \* interactions that exist at the start
MaxAppended == 1      \* interactions appended afterwards
MaxLogDocs == 2
MaxLogReqs == 2

LogDocs == 1..MaxLogDocs
LogSlots == 1..MaxLogReqs
LogOwner(d) == IF d = 1 THEN "u1" ELSE "u2"

StoredFile(d) == [name |-> d, ext |-> ".pdf"]

\* a document whose run has completed without a summary
ProcessedDocument(d) ==
    [NewDocument(d, LogOwner(d), [mimeType |-> "application/pdf", ext |-> ".pdf"])
        EXCEPT !.uploadStatus = "COMPLETED"]
ProcessedResult(d) ==
    CompletedRow(NewOcrRow, ExtractOk(<<"t">>, 100, 1500), NullStr)

\* prompts and responses of the prior calls, in creation order
HistoryPrompts == [k \in 1..MaxHistory |-> <<"p", ToString(k)>>]
HistoryResponses == [k \in 1..MaxHistory |-> <<"r", ToString(k)>>]

\* n prior interactions; the j-th (if any) belongs to document 2, the
\* others to document 1; queries and explanations alternate
History(n, j) ==
    [k \in 1..n |->
        Interaction(IF k = j THEN 2 ELSE 1,
                    IF k % 2 = 1 THEN "QUERY" ELSE "EXPLANATION",
                    HistoryPrompts[k], HistoryResponses[k])]

\* rows appended since the start
Appended ==
    Cardinality({k \in 1..Len(interactions) :
        \A h \in 1..MaxHistory : interactions[k].response # HistoryResponses[h]})

RoomInLog == Appended + Pending({"explain", "query"}) < MaxAppended

LogInit ==
    /\ docs = [d \in LogDocs |-> ProcessedDocument(d)]
    /\ ocr = [d \in LogDocs |-> ProcessedResult(d)]
    /\ \E n \in 0..MaxHistory : \E j \in 0..n : interactions = History(n, j)
    /\ files = {StoredFile(d) : d \in LogDocs}
    /\ runs = <<>>
    /\ reqs = [s \in LogSlots |-> FreeReq]
    /\ resp = NoResp
    /\ llmCall = NoCall
    /\ nextId = MaxLogDocs + 1
    /\ llmConfigured \in BOOLEAN
    /\ crashed = FALSE

explainAgain(s, id, userId, context) ==
    RoomInLog /\ explainBegin(s, id, userId, context)

queryAgain(s, id, userId, query) ==
    RoomInLog /\ queryBegin(s, id, userId, query)

LogNext ==
    \/ \E d \in LogDocs, u \in Users : getDocument(d, u)
    \/ \E u \in Users : listDocuments(u)
    \/ \E s \in LogSlots, d \in LogDocs, u \in Users, c \in Contexts :
          explainAgain(s, d, u, c)
    \/ \E s \in LogSlots : explainFinish(s)
    \/ \E s \in LogSlots, d \in LogDocs, u \in Users, q \in Questions :
          queryAgain(s, d, u, q)
    \/ \E s \in LogSlots : queryHistory(s)
    \/ \E s \in LogSlots : queryFinish(s)
    \/ \E s \in LogSlots, d \in LogDocs, u \in Users : downloadStart(s, d, u)
    \/ \E s \in LogSlots : downloadRead(s)
    \/ \E s \in LogSlots, d \in LogDocs, u \in Users : deleteStart(s, d, u)
    \/ \E s \in LogSlots : deleteFinish(s)

LogSpec == LogInit /\ [][LogNext]_vars

\* ------------------------------------------------- report specification
\* downloadDocument applied to one document in every condition in which the
\* pipeline and reprocess can leave it.
MaxReportHistory == 3

ReportConfidences == {0, 87, 100}
ReportTimes == {0, 1500}
ReportTexts == {<<>>, <<"t">>}
ReportSummaries == {NullStr, <<"s">>}
ReportErrors == {NullStr, <<"e">>}

\* a COMPLETED row carries the figures of the run that completed it, a
\* FAILED row the message of the run that failed; the other columns keep
\* what earlier runs of the document wrote
ReportRows ==
    { r \in [status : {"PROCESSING", "COMPLETED", "FAILED"},
             extractedText : ReportTexts, summary : ReportSummaries,
             confidence : ReportConfidences \cup {NullNum},
             processingTime : ReportTimes \cup {NullNum},
             error : ReportErrors] :
        /\ r.status = "COMPLETED" =>
              r.confidence # NullNum /\ r.processingTime # NullNum
        /\ r.status = "FAILED" => r.error # NullStr
        /\ (r.confidence = NullNum) = (r.processingTime = NullNum) }

ReportInit ==
    /\ \E upload \in Uploads,
          st \in {"PENDING", "PROCESSING", "COMPLETED", "FAILED"} :
          docs = [d \in {1} |->
                     [NewDocument(1, "u1", upload) EXCEPT !.uploadStatus = st]]
    /\ \/ ocr = <<>>
       \/ /\ docs[1].uploadStatus # "PENDING"
          /\ \E r \in ReportRows :
                \* the PDF branch of extractText reports confidence 100 only
                /\ IsPdf(docs[1].filePath, docs[1].mimeType) =>
                      r.confidence \in {NullNum, 100}
                /\ ocr = [d \in {1} |-> r]
    /\ \E n \in 0..MaxReportHistory :
          /\ docs[1].uploadStatus = "PENDING" => n = 0
          /\ interactions = History(n, 0)
    /\ files = {[name |-> 1, ext |-> docs[1].filePath.ext]}
    /\ runs = <<>>
    /\ reqs = [s \in Slots |-> FreeReq]
    /\ resp = NoResp
    /\ llmCall = NoCall
    /\ nextId = 2
    /\ llmConfigured = TRUE
    /\ crashed = FALSE

ReportNext ==
    \/ \E s \in Slots, d \in DocIds, u \in Users : downloadStart(s, d, u)
    \/ \E s \in Slots : downloadRead(s)

ReportSpec == ReportInit /\ [][ReportNext]_vars

\* ------------------------------------------------- summary specification
\* The extraction and summary steps of one run, for texts and answers whose
\* lengths lie on both sides of the two limits.

\* n characters; those after the first SummarySlice are marked
Chars(n) == [k \in 1..n |-> IF k <= SummarySlice THEN "a" ELSE "b"]

\* texts the engine can find (before extractText trims them)
LongRawTexts ==
    {<<>>, <<" ", " ">>, <<" ">> \o Chars(2) \o <<" ">>}
    \cup {Chars(n) : n \in {1, 2, SummarySlice - 1, SummarySlice, SummarySlice + 1}}

LongEngineOutcomes ==
    {[ok |-> TRUE, text |-> t, confidence |-> 90, msg |-> "", ms |-> 1500] :
        t \in LongRawTexts}

Letters(n) == [k \in 1..n |-> "s"]

\* sentences the assistant can answer: bare, in double or single quotes,
\* with a quote on one side only, padded with blanks inside or outside
LongLlmTexts ==
    UNION {{Letters(n),
            <<"\"">> \o Letters(n) \o <<"\"">>,
            <<"'">> \o Letters(n) \o <<"'">>,
            <<"\"">> \o Letters(n),
            Letters(n) \o <<"'">>,
            <<"\"", " ">> \o Letters(n) \o <<" ", "\"">>,
            <<" ", "\"">> \o Letters(n) \o <<"\"", " ">>} :
           n \in {0, 1, 2, SummaryMax - 1, SummaryMax, SummaryMax + 1}}

LongApiOutcomes ==
    {[ok |-> TRUE, text |-> t, msg |-> ""] : t \in LongLlmTexts}
    \cup {[ok |-> FALSE, text |-> <<>>, msg |-> m] : m \in LlmErrors}

\* one image document whose run has done its two PROCESSING writes
SummaryInit ==
    /\ docs = [d \in {1} |->
                  [NewDocument(1, "u1", [mimeType |-> "image/png", ext |-> ".png"])
                      EXCEPT !.uploadStatus = "PROCESSING"]]
    /\ ocr = [d \in {1} |-> NewOcrRow]
    /\ interactions = <<>>
    /\ files = {docs[1].filePath}
    /\ runs = << [pc |-> "extract", doc |-> 1, origin |-> "submit",
                  document |-> [filePath |-> docs[1].filePath,
                                mimeType |-> docs[1].mimeType],
                  result |-> NoResult, summary |-> NullStr, error |-> NullStr,
                  outcome |-> "pending", overlapped |-> FALSE, workers |-> 0] >>
    /\ reqs = [s \in Slots |-> FreeReq]
    /\ resp = NoResp
    /\ llmCall = NoCall
    /\ nextId = 2
    /\ llmConfigured \in BOOLEAN
    /\ crashed = FALSE

SummaryNext ==
    \/ ExtractWith(1, LongEngineOutcomes)
    \/ SummaryWith(1, LongApiOutcomes)
    \/ UpdateOcrCompleted(1)
    \/ SetCompleted(1)

SummarySpec == SummaryInit /\ [][SummaryNext]_vars

\* ------------------------------------------------------------- properties
Terminal(status) == status \in {"COMPLETED", "FAILED"}
Owner(d, u) == Exists(d) /\ docs[d].userId = u
RunIds == 1..MaxRuns
Started(i) == i \in 1..Len(runs)
\* run i settles in this step
Settles(i) == Started(i) /\ InFlight(runs[i]) /\ ~InFlight(runs'[i])
LastRunOf(d) == CHOOSE i \in RunsOf(d) : \A j \in RunsOf(d) : j <= i

\* C1: for every document that is not deleted, once every pipeline run
\* started for it has settled, Document.uploadStatus and
\* ExtractionResult.status are both COMPLETED or FAILED.
C1_SettledIsTerminal ==
    \A d \in DOMAIN docs :
        (RunsOf(d) # {} /\ ActiveRunsOf(d) = {})
        => /\ Terminal(docs[d].uploadStatus)
           /\ HasOcr(d)
           /\ Terminal(ocr[d].status)

\* two overlapping runs of one document have both settled
C1_Witness ==
    \E d \in DOMAIN docs :
        /\ Cardinality(RunsOf(d)) = 2 /\ ActiveRunsOf(d) = {}
        /\ \E i \in RunsOf(d) : runs[i].overlapped

\* C2 as stated: whenever no run is in flight for a document that has an
\* ExtractionResult, uploadStatus and ExtractionResult.status are equal,
\* for every interleaving of submit, reprocess and pipeline steps.
C2_Original ==
    \A d \in DOMAIN docs :
        (HasOcr(d) /\ ActiveRunsOf(d) = {})
        => docs[d].uploadStatus = ocr[d].status

\* C2 amended: the two statuses are equal whenever no run is in flight for
\* a document that has an ExtractionResult and the last run scheduled for
\* it did not overlap another run of the same document.
C2_EqualWithoutOverlap ==
    \A d \in DOMAIN docs :
        (HasOcr(d) /\ RunsOf(d) # {} /\ ActiveRunsOf(d) = {}
         /\ ~runs[LastRunOf(d)].overlapped)
        => /\ docs[d].uploadStatus = ocr[d].status
           /\ Terminal(ocr[d].status)

\* a reprocess run that started after the first run had settled, settled
C2_Witness ==
    \E d \in DOMAIN docs :
        /\ HasOcr(d) /\ Cardinality(RunsOf(d)) = 2 /\ ActiveRunsOf(d) = {}
        /\ ~runs[LastRunOf(d)].overlapped
        /\ ocr[d].status = "FAILED"

\* C3: submit persists the Document with uploadStatus PENDING, schedules
\* the run and returns the persisted row before any step of the run has
\* executed, so the returned value cannot depend on how the run ends.
C3_SubmitReturnsPending ==
    [][nextId' # nextId =>
        /\ nextId \in DOMAIN docs' /\ nextId \notin DOMAIN docs
        /\ docs'[nextId].uploadStatus = "PENDING"
        /\ resp' = Returned("createDocument", docs'[nextId])
        /\ resp'.uploadStatus = "PENDING"
        /\ Len(runs') = Len(runs) + 1
        /\ runs'[Len(runs')].doc = nextId
        /\ runs'[Len(runs')].pc = "setProcessing"
        /\ ocr' = ocr
      ]_vars

C3_Witness ==
    /\ resp.op = "createDocument" /\ resp.uploadStatus = "PENDING"
    /\ Len(runs) = 1 /\ runs[1].pc = "setProcessing"
    /\ docs[1].uploadStatus = "PENDING"


\* run i executes one of its steps in this step
Steps(i) == Started(i) /\ runs[i].pc # runs'[i].pc

\* C4: an exception raised inside a scheduled run, also one raised inside
\* the run's own failure handler, is swallowed where the run was scheduled:
\* no step of a run delivers anything to a caller, submit and reprocess
\* never answer with an error, no rejection is left unhandled, and the
\* failure handler's first write persists FAILED on the document.
C4_RunFailuresSwallowed ==
    /\ [](~crashed)
    /\ [](resp.op \in {"createDocument", "reprocess"} => resp.kind = "ok")
    /\ [][\A i \in RunIds : Steps(i) =>
            /\ resp' = NoResp
            /\ (runs'[i].outcome = "rejected" => ~InFlight(runs'[i]) /\ ~crashed')
            /\ (runs[i].pc = "failDoc" /\ Exists(runs[i].doc)
                => docs'[runs[i].doc].uploadStatus = "FAILED")
       ]_vars

\* a run whose failure handler threw, on a document that still exists
C4_Witness ==
    \E i \in 1..Len(runs) :
        /\ runs[i].outcome = "rejected" /\ ~crashed
        /\ Exists(runs[i].doc) /\ docs[runs[i].doc].uploadStatus = "FAILED"

\* the run's captured error is one thrown by OcrService.extractText
ExtractionFailed(r) == r.error # NullStr /\ r.error[1] = "OCR processing failed: "
\* the message of the parser / engine / file system inside it
AdapterMessage(r) == r.error[Len(r.error)]

EndsFailedWithMessage(i) ==
    LET d == runs[i].doc IN
    /\ d \in DOMAIN docs' /\ docs'[d].uploadStatus = "FAILED"
    /\ d \in DOMAIN ocr' /\ ocr'[d].status = "FAILED"
    /\ Contains(ocr'[d].error, AdapterMessage(runs[i]))

\* C5 as stated: if the Text Extraction Adapter fails during a run, the run
\* ends with uploadStatus FAILED, ExtractionResult.status FAILED and the
\* adapter's message inside ExtractionResult.error (read for a document
\* that still exists when the run ends).
C5_Original ==
    [][\A i \in RunIds :
          (Settles(i) /\ ExtractionFailed(runs[i]) /\ runs[i].doc \in DOMAIN docs')
          => EndsFailedWithMessage(i)
      ]_vars

\* C5 amended: the same, for a run that no other run of the same document
\* (started by a reprocess) overlaps.
C5_FailedExtractionRecorded ==
    [][\A i \in RunIds :
          (/\ Settles(i) /\ ExtractionFailed(runs[i])
           /\ ~runs[i].overlapped /\ runs[i].doc \in DOMAIN docs')
          => EndsFailedWithMessage(i)
      ]_vars

\* a single run ended FAILED with the parser's message recorded
C5_Witness ==
    /\ Len(runs) = 1 /\ ~InFlight(runs[1]) /\ Exists(1) /\ HasOcr(1)
    /\ docs[1].uploadStatus = "FAILED" /\ ocr[1].status = "FAILED"
    /\ Contains(ocr[1].error, "corrupt")

\* C6: the failure branch records FAILED and the error message on the
\* document's ExtractionResult even when no row exists at that moment (it
\* creates the row).  Stated for documents that exist.
C6_FailureBranchKeepsError ==
    [][\A i \in RunIds :
          (/\ Started(i) /\ runs[i].pc = "failOcr" /\ runs'[i].pc = "done"
           /\ Exists(runs[i].doc))
          => /\ runs[i].doc \in DOMAIN ocr'
             /\ ocr'[runs[i].doc].status = "FAILED"
             /\ ocr'[runs[i].doc].error = runs[i].error
      ]_vars

\* extraction succeeded with text and the summary call failed
SummaryFailed(r) ==
    /\ r.pc \in {"updateOcr", "setCompleted", "failDoc", "failOcr"}
    /\ r.result.ok /\ Len(Trim(r.result.text)) > 0
    /\ r.summary = NullStr

EndsCompletedWithoutSummary(i) ==
    LET d == runs[i].doc IN
    /\ d \in DOMAIN docs' /\ docs'[d].uploadStatus = "COMPLETED"
    /\ d \in DOMAIN ocr' /\ ocr'[d].status = "COMPLETED"
    /\ ocr'[d].extractedText = runs[i].result.text
    /\ ocr'[d].summary = NullStr

\* the summary step never diverts the run into its failure branch
SummaryStepContinues ==
    \A i \in RunIds :
        (Started(i) /\ runs[i].pc = "summary" /\ Steps(i))
        => runs'[i].pc = "updateOcr" /\ runs'[i].error = NullStr

\* C7 as stated: when the summary call fails after a successful extraction
\* the run still ends with both statuses COMPLETED, the text persisted and
\* no summary (read for a document that still exists when the run ends).
C7_Original ==
    [][/\ SummaryStepContinues
       /\ \A i \in RunIds :
            (Settles(i) /\ SummaryFailed(runs[i]) /\ runs[i].doc \in DOMAIN docs')
            => EndsCompletedWithoutSummary(i)
      ]_vars

\* C7 amended: the same, for a run that no other run of the same document
\* (started by a reprocess) overlaps.
C7_SummaryFailureNotFatal ==
    [][/\ SummaryStepContinues
       /\ \A i \in RunIds :
            (/\ Settles(i) /\ SummaryFailed(runs[i])
             /\ ~runs[i].overlapped /\ runs[i].doc \in DOMAIN docs')
            => EndsCompletedWithoutSummary(i)
      ]_vars

\* a single run completed with text and without a summary
C7_Witness ==
    /\ Len(runs) = 1 /\ ~InFlight(runs[1]) /\ Exists(1) /\ HasOcr(1)
    /\ docs[1].uploadStatus = "COMPLETED" /\ ocr[1].status = "COMPLETED"
    /\ ocr[1].extractedText # <<>> /\ ocr[1].summary = NullStr


\* the state in which explain / query must be refused as not ready
NotReady(d) == ~HasOcr(d) \/ ocr[d].status # "COMPLETED"
NotReadyError == Fail("BadRequest", MsgNotReady)
PendingOps(ops) == {s \in DOMAIN reqs : reqs[s].op \in ops}

\* C8: explainDocument and queryDocument called by the owner while the
\* document has no ExtractionResult, or one that is not COMPLETED, throw the
\* not-ready error; no request gets past the check in such a state (so no
\* assistant call is made for it and no Interaction row is appended), and
\* rows are appended only by requests that had passed the check.
C8_NotReadyRefused ==
    /\ [](\A d \in DocIds, u \in Users :
            (Owner(d, u) /\ NotReady(d))
            => explainCheck(d, u) = NotReadyError /\ queryCheck(d, u) = NotReadyError)
    /\ [][/\ \A s \in Slots :
               (reqs[s].op = "none" /\ reqs'[s].op \in {"explain", "query"})
               => ~NotReady(reqs'[s].doc)
          /\ (interactions' # interactions /\ Len(interactions') > Len(interactions))
               => \E s \in PendingOps({"explain", "query"}) :
                     reqs[s].pc = "llm" /\ reqs'[s].op = "none"
          /\ (llmCall' # NoCall /\ llmCall' # llmCall)
               => \/ \E s \in PendingOps({"explain", "query"}) :
                        reqs[s].pc = "llm" /\ reqs'[s].op = "none"
                  \/ \E i \in RunIds : Started(i) /\ runs[i].pc = "summary" /\ Steps(i)
       ]_vars

\* the owner's explain and query are refused while extraction is under way
C8_Witness ==
    /\ Exists(1) /\ HasOcr(1) /\ ocr[1].status = "PROCESSING"
    /\ Takes(1) /\ RoomForInteraction
    /\ explainCheck(1, "u1").kind = "BadRequest"
    /\ queryCheck(1, "u1").kind = "BadRequest"

\* the synchronous checks of the operations that take (document id, caller)
Checks(d, u) ==
    {getCheck(d, u), explainCheck(d, u), queryCheck(d, u), downloadCheck(d, u),
     deleteCheck(d, u), reprocessCheck(d, u)}

Stored == <<docs, ocr, interactions, files, runs>>

\* C9: get, explain, query, download, delete and reprocess verify ownership
\* before anything else: for a caller who is not the owner every one of
\* them throws at its check, and a request that gets past its check (the
\* only requests that create, change or delete rows, remove the file or
\* schedule a run) is the owner's.
C9_OwnershipFirst ==
    /\ [](\A d \in DocIds, u \in Users :
            (Exists(d) /\ ~Owner(d, u)) => \A c \in Checks(d, u) : c.kind # "ok")
    /\ [](\A s \in Slots :
            (reqs[s].op # "none" /\ Exists(reqs[s].doc)) => Owner(reqs[s].doc, reqs[s].user))
    /\ [][\A s \in Slots :
            (reqs[s].op = "none" /\ reqs'[s].op # "none")
            => Owner(reqs'[s].doc, reqs'[s].user)
       ]_vars
    /\ [][(Stored' # Stored)
            => \/ nextId' # nextId
               \/ \E i \in RunIds : Steps(i)
               \/ \E s \in Slots : reqs'[s] # reqs[s] /\ Owner(reqs'[s].doc, reqs'[s].user)
               \/ \E s \in Slots : reqs'[s] # reqs[s] /\ reqs[s].op # "none"
       ]_vars

\* another user's requests are refused while the owner's delete is in flight
C9_Witness ==
    /\ Exists(1) /\ docs[1].userId = "u1"
    /\ \A c \in Checks(1, "u2") : c.kind # "ok"
    /\ reqs[1].op = "delete" /\ reqs[1].user = "u1"

\* the typed failure of the claim for an operation on (d, u)
TypedFailure(d, u, c) ==
    /\ (~Exists(d) => c.kind = "NotFound")
    /\ (Exists(d) /\ ~Owner(d, u) => c.kind = "Forbidden")

\* C10: for every boundary operation on a document id the failure the
\* caller receives is not-found when no Document with that id exists and
\* forbidden when it exists but belongs to another user.
C10_TypedFailures ==
    \A d \in DocIds, u \in Users : \A c \in Checks(d, u) : TypedFailure(d, u, c)

\* ------------------------------------------------- C11: status transitions
\* the state machine of the specification, as (from, to) pairs
StatusMoves ==
    {<<"PENDING", "PROCESSING">>, <<"PROCESSING", "COMPLETED">>,
     <<"PROCESSING", "FAILED">>, <<"COMPLETED", "PROCESSING">>,
     <<"FAILED", "PROCESSING">>}

\* document d is kept by this step and its uploadStatus changes
StatusChanges(d) ==
    d \in DOMAIN docs /\ d \in DOMAIN docs'
    /\ docs'[d].uploadStatus # docs[d].uploadStatus

StatusMove(d) == <<docs[d].uploadStatus, docs'[d].uploadStatus>>

\* C11 as stated: uploadStatus changes only along PENDING -> PROCESSING ->
\* {COMPLETED, FAILED} and, by a reprocess run, back to PROCESSING; never
\* FAILED -> COMPLETED or COMPLETED -> FAILED directly, never back to PENDING.
C11_Original ==
    [][\A d \in DocIds : StatusChanges(d) => StatusMove(d) \in StatusMoves]_vars

\* C11 amended: uploadStatus is changed only by steps of pipeline runs and
\* never back to PENDING; a step of a run that no other run of the same
\* document overlaps changes it only along the state machine.
C11_StatusStateMachine ==
    [][\A d \in DocIds : StatusChanges(d) =>
          /\ docs'[d].uploadStatus # "PENDING"
          /\ \E i \in RunIds : Steps(i) /\ runs[i].doc = d
          /\ \A i \in RunIds :
                (Steps(i) /\ runs[i].doc = d /\ ~runs[i].overlapped)
                => StatusMove(d) \in StatusMoves
      ]_vars

\* a reprocess run that overlaps no other run has just reset a document,
\* which its first run had left terminal, to PROCESSING
C11_Witness ==
    /\ Len(runs) = 2 /\ ~InFlight(runs[1]) /\ ~runs[2].overlapped
    /\ runs[2].origin = "reprocess" /\ runs[2].pc = "load"
    /\ Exists(1) /\ docs[1].uploadStatus = "PROCESSING"
    /\ HasOcr(1) = FALSE

\* ------------------------------------------------- C12: one result per document
\* every run ever scheduled
AllRuns == 1..Len(runs)

\* a reprocess request answers in this step
ReprocessReturns(s) ==
    reqs[s].op = "reprocess" /\ reqs[s].pc = "deleteMany" /\ reqs'[s].op = "none"

\* run i, started by a reprocess, completes in this step (its last write)
ReprocessRunCompletes(i) ==
    /\ i \in AllRuns /\ runs[i].origin = "reprocess"
    /\ runs[i].pc = "setCompleted" /\ runs'[i].pc = "done"
    /\ runs[i].doc \in DOMAIN docs'

\* the rows of ocr_results for document d after this step: the table is
\* keyed by its unique index on documentId
RowsAfter(d) == IF d \in DOMAIN ocr' THEN 1 ELSE 0

\* a row for d comes into being in this step
RowCreated(d) == d \notin DOMAIN ocr /\ d \in DOMAIN ocr'

\* C12 as stated: reprocess deletes the prior ExtractionResult, and after
\* the run it started completes exactly one ExtractionResult row exists for
\* the document; rows are created only by the upsert keyed by documentId.
C12_Original ==
    [][/\ \A s \in Slots : ReprocessReturns(s) => RowsAfter(reqs[s].doc) = 0
       /\ \A i \in 1..MaxPipelineRuns :
            ReprocessRunCompletes(i) => RowsAfter(runs[i].doc) = 1
       /\ \A d \in DocIds : RowCreated(d) =>
            \E i \in AllRuns : runs[i].doc = d /\ runs[i].pc = "upsert" /\ Steps(i)
      ]_vars

\* C12 amended: the same, where the completing run is one that no other run
\* of the same document overlaps; its row is the COMPLETED one it wrote.
C12_OneResultAfterReprocess ==
    [][/\ \A s \in Slots : ReprocessReturns(s) => RowsAfter(reqs[s].doc) = 0
       /\ \A i \in 1..MaxPipelineRuns :
            (ReprocessRunCompletes(i) /\ ~runs[i].overlapped)
            => /\ RowsAfter(runs[i].doc) = 1
               /\ ocr'[runs[i].doc].status = "COMPLETED"
       /\ \A d \in DocIds : RowCreated(d) =>
            \E i \in AllRuns : runs[i].doc = d /\ runs[i].pc = "upsert" /\ Steps(i)
      ]_vars

\* a reprocess run, started after the first run had settled, completed
C12_Witness ==
    /\ Len(runs) = 2 /\ ~InFlight(runs[2]) /\ ~runs[2].overlapped
    /\ runs[2].origin = "reprocess" /\ runs[2].outcome = "fulfilled"
    /\ Exists(1) /\ HasOcr(1) /\ ocr[1].status = "COMPLETED"
    /\ docs[1].uploadStatus = "COMPLETED"

\* ------------------------------------------------- C13: text empty until COMPLETED
\* C13 as stated: an ExtractionResult's extracted text is the empty string
\* in every state in which its status is PENDING or PROCESSING, also after
\* a reprocess and when runs of the same document overlap.
C13_Original ==
    \A d \in DOMAIN ocr :
        ocr[d].status \in {"PENDING", "PROCESSING"} => ocr[d].extractedText = <<>>

\* C13 amended: the extracted text is the empty string whenever the status
\* is not COMPLETED and the last run started for the document overlaps no
\* other run of the same document.
C13_TextEmptyUntilCompleted ==
    \A d \in DOMAIN ocr :
        (/\ ocr[d].status # "COMPLETED"
         /\ RunsOf(d) # {} /\ ~runs[LastRunOf(d)].overlapped)
        => ocr[d].extractedText = <<>>

\* a reprocess run that overlaps no other run failed: its row is FAILED
\* and carries no text
C13_Witness ==
    /\ Len(runs) = 2 /\ ~runs[2].overlapped /\ ~InFlight(runs[2])
    /\ HasOcr(1) /\ ocr[1].status = "FAILED" /\ ocr[1].extractedText = <<>>

\* ------------------------------------------------- C14: delete cascades
\* a delete request answers with success in this step
DeleteReturns(s) ==
    reqs[s].op = "delete" /\ reqs'[s].op = "none" /\ resp'.kind = "ok"

\* the documents that some row of the three tables refers to
Referred ==
    DOMAIN docs \cup DOMAIN ocr
    \cup {interactions[k].documentId : k \in 1..Len(interactions)}

\* C14: when deleteDocument returns, no Document, ExtractionResult or
\* Interaction row refers to the deleted id, and none appears later: child
\* rows exist only for documents that exist, ids are not reused.
C14_DeleteCascades ==
    /\ [](Referred \subseteq DOMAIN docs)
    /\ [][/\ \A s \in LogSlots :
               DeleteReturns(s) => /\ reqs[s].doc \notin Referred'
                                   /\ reqs[s].doc \in DOMAIN docs
          /\ DOMAIN docs' \subseteq DOMAIN docs
       ]_vars

\* document 1, which had a result and three or more interactions, is gone
\* with all of them; the row of document 2 is still there
C14_Witness ==
    /\ resp = Done("delete") /\ 1 \notin Referred /\ 2 \in DOMAIN docs
    /\ Len(interactions) = 1 /\ interactions[1] = History(5, 5)[5]

\* ------------------------------------------------- C15: best-effort file removal
\* a delete request gets past findOne in this step
DeleteProceeds(s) == reqs[s].op = "none" /\ reqs'[s].op = "delete"

\* a delete request executes document.delete in this step
DeleteExecutes(s) ==
    reqs[s].op = "delete" /\ reqs[s].pc = "delete" /\ reqs'[s].op = "none"

\* C15: removal of the backing file is best effort: whether or not the file
\* was removed, the request goes on to document.delete, the Document row
\* and its child rows are deleted and the operation reports success; the
\* only failure delete can answer with is that of a row already gone.
C15_FileRemovalBestEffort ==
    /\ [](resp.op = "delete" /\ resp.kind # "ok" => resp.msg = MsgRecordNotFound)
    /\ [][\A s \in Slots :
            /\ DeleteProceeds(s) => reqs'[s].pc = "delete" /\ resp' = NoResp
            /\ (DeleteExecutes(s) /\ Exists(reqs[s].doc))
               => /\ resp' = Done("delete")
                  /\ reqs[s].doc \notin Referred'
       ]_vars

\* delete reported success and the rows are gone although the file of the
\* document is still in the store (its removal failed)
C15_Witness ==
    /\ resp = Done("delete") /\ 1 \notin Referred
    /\ \E f \in files : f.name = 1

\* ------------------------------------------------- C16: turns sent by query
\* the rows of document d in creation order
DocRows(rows, d) == SelectSeq(rows, LAMBDA r : r.documentId = d)

Min(a, b) == IF a < b THEN a ELSE b

\* part occurs in content as a contiguous piece
ContainsSeq(content, part) ==
    \E i \in 0..(Len(content) - Len(part)) :
        SubSeq(content, i + 1, i + Len(part)) = part

\* a query request passes its checks / loads the history / calls the assistant
QueryProceeds(s) == reqs[s].op = "none" /\ reqs'[s].op = "query"
QueryLoads(s) ==
    reqs[s].op = "query" /\ reqs[s].pc = "history" /\ reqs'[s].pc = "llm"
QuerySends(s) ==
    reqs[s].op = "query" /\ reqs[s].pc = "llm" /\ reqs'[s].op = "none"
    /\ llmConfigured

\* the min(5, n) most recent of the document's n rows, newest first
MostRecent(d) ==
    LET all == DocRows(interactions, d)
        n == Len(all)
    IN  [k \in 1..Min(HistoryTake, n) |-> all[n - k + 1]]

\* the messages of the claim for the loaded rows (newest first), the
\* extracted text and the question
TurnsAsClaimed(messages, loaded, text, question) ==
    LET m == Len(loaded) IN
    /\ Len(messages) = 2 * m + 2
    /\ messages[1].role = "system"
    /\ \A k \in 1..m :
          /\ messages[2 * k] = [role |-> "user", content |-> loaded[m - k + 1].prompt]
          /\ messages[2 * k + 1] =
                [role |-> "assistant", content |-> loaded[m - k + 1].response]
    /\ messages[2 * m + 2].role = "user"
    /\ ContainsSeq(messages[2 * m + 2].content, text)
    /\ ContainsSeq(messages[2 * m + 2].content, question)

\* C16: queryDocument sends the assistant, after the system prompt, the
\* min(5, n) most recent of the document's n prior Interactions (any type),
\* oldest first, each as a user turn with its prompt and an assistant turn
\* with its response, then one final user turn containing the extracted
\* text and the literal question.
C16_QueryTurns ==
    [][\A s \in LogSlots :
          /\ QueryProceeds(s)
             => /\ reqs'[s].snap.ocrResult.extractedText = ocr[reqs'[s].doc].extractedText
                /\ reqs'[s].arg \in Questions
          /\ QueryLoads(s) => reqs'[s].prev = MostRecent(reqs[s].doc)
          /\ QuerySends(s)
             => /\ llmCall'.fn = "answerQuery"
                /\ TurnsAsClaimed(llmCall'.messages, reqs[s].prev,
                                  reqs[s].snap.ocrResult.extractedText, reqs[s].arg)
      ]_vars

\* a query on document 1, which had 7 prior interactions, was answered
\* after the 5 most recent of them (p3 .. p7) were replayed oldest first
C16_Witness ==
    /\ llmCall.fn = "answerQuery" /\ Len(llmCall.messages) = 12
    /\ llmCall.messages[2].content = <<"p", "3">>
    /\ llmCall.messages[11].content = <<"r", "7">>
    /\ CountOf(interactions, 1) = 8

\* ------------------------------------------------- C17: what a call appends
\* an explain / query request returns its interaction in this step
Succeeds(s, op) ==
    reqs[s].op = op /\ reqs[s].pc = "llm" /\ reqs'[s].op = "none"
    /\ resp' = Done(op)

\* exactly one row is appended and the earlier rows are unchanged
AppendsOne ==
    /\ Len(interactions') = Len(interactions) + 1
    /\ SubSeq(interactions', 1, Len(interactions)) = interactions

Last(rows) == rows[Len(rows)]

\* C17: a successful queryDocument appends exactly one Interaction of type
\* QUERY for the document whose prompt is the caller's raw question, not
\* the prompt sent to the assistant; a successful explainDocument appends
\* exactly one Interaction of type EXPLANATION; earlier rows are unchanged.
C17_AppendsOneInteraction ==
    [][\A s \in LogSlots :
          /\ Succeeds(s, "query")
             => /\ AppendsOne
                /\ Last(interactions').type = "QUERY"
                /\ Last(interactions').documentId = reqs[s].doc
                /\ Last(interactions').prompt = reqs[s].arg
                /\ Last(interactions').prompt # Last(llmCall'.messages).content
                /\ reqs[s].arg \in Questions
          /\ Succeeds(s, "explain")
             => /\ AppendsOne
                /\ Last(interactions').type = "EXPLANATION"
                /\ Last(interactions').documentId = reqs[s].doc
      ]_vars

\* a query on document 1 succeeded on top of four earlier interactions
C17_Witness ==
    /\ resp = Done("query") /\ Len(interactions) = 5
    /\ SubSeq(interactions, 1, 4) = History(4, 0)
    /\ interactions[5].type = "QUERY" /\ interactions[5].prompt = <<"q">>
    /\ interactions[5].documentId = 1

\* ------------------------------------------------- C18: append-only log
\* the rows whose document is still there after this step, in order
Kept == SelectSeq(interactions, LAMBDA r : r.documentId \in DOMAIN docs')

\* C18: the Interaction log is append-only: in every step the rows whose
\* Document is not deleted by the step stay, unchanged and in order, in
\* front of whatever the step appends; rows go only with their Document.
C18_AppendOnlyLog ==
    [][/\ Len(interactions') >= Len(Kept)
       /\ SubSeq(interactions', 1, Len(Kept)) = Kept
       /\ (DOMAIN docs' = DOMAIN docs => Kept = interactions)
      ]_vars

\* document 2 was deleted with its one interaction; the two interactions
\* of document 1 around it are still there, unchanged
C18_Witness ==
    /\ 2 \notin DOMAIN docs /\ 1 \in DOMAIN docs
    /\ interactions = <<History(3, 2)[1], History(3, 2)[3]>>

\* ------------------------------------------------- C19: counts and lists agree
\* list is the rows of document d, newest first
NewestFirst(list, d) ==
    LET all == DocRows(interactions, d) IN
    /\ Len(list) = Len(all)
    /\ \A k \in 1..Len(list) : list[k] = all[Len(all) - k + 1]

\* C19: in any state, for every document of a user, the interaction count
\* reported by listDocuments equals the length of the interaction list
\* returned by getDocument, and that list is newest-first.
C19_CountMatchesList ==
    \A u \in Users : \A d \in DOMAIN docs :
        docs[d].userId = u
        => /\ d \in DOMAIN findAll(u)
           /\ getCheck(d, u).kind = "ok"
           /\ findAll(u)[d].count = Len(getCheck(d, u).snap.llmInteractions)
           /\ NewestFirst(getCheck(d, u).snap.llmInteractions, d)

\* document 1 has three interactions, the newest being the query just
\* appended; document 2 of the other user has one
C19_Witness ==
    /\ 1 \in DOMAIN docs /\ findAll("u1")[1].count = 3
    /\ getCheck(1, "u1").snap.llmInteractions[1].prompt = <<"q">>
    /\ getCheck(1, "u1").snap.llmInteractions[3].prompt = <<"p", "1">>
    /\ 2 \in DOMAIN docs /\ findAll("u2")[2].count = 1

\* ------------------------------------------------- C20: missing backing file
\* a download request reads the file in this step
DownloadReads(s) ==
    reqs[s].op = "download" /\ reqs[s].pc = "read" /\ reqs'[s].op = "none"

\* the file of the document the request loaded is not in the store
FileMissing(s) == reqs[s].snap.document.filePath \notin files

\* what the caller of download receives for an absent document and for a
\* document of another user
DownloadNotFound == DownloadCatch(Fail("NotFound", MsgDocumentNotFound))
DownloadForbidden == DownloadCatch(Fail("Forbidden", MsgAccessDenied))

\* C20: whenever the backing file cannot be read, download fails with the
\* file-missing error, which the caller can tell from the document-not-found
\* and forbidden errors, and no archive is produced; with the file there,
\* the archive is returned.
C20_FileMissingError ==
    [][\A s \in LogSlots : DownloadReads(s) =>
          IF FileMissing(s)
          THEN /\ resp'.op = "download" /\ resp'.kind # "ok"
               /\ Contains(resp'.msg, "File not found on server")
               /\ <<resp'.kind, resp'.msg>> # <<DownloadNotFound.kind, DownloadNotFound.msg>>
               /\ <<resp'.kind, resp'.msg>> # <<DownloadForbidden.kind, DownloadForbidden.msg>>
          ELSE /\ resp'.op = "download" /\ resp'.kind = "ok"
               /\ Len(resp'.archive) = 2
      ]_vars

\* the owner's download failed on the missing file while the document row
\* was still there (a delete in flight had removed the file)
C20_Witness ==
    /\ resp.op = "download" /\ resp.kind # "ok"
    /\ Contains(resp.msg, "File not found on server")
    /\ 1 \in DOMAIN docs /\ StoredFile(1) \notin files

\* ------------------------------------------------- C21: extraction section
\* the report a download request returns in this step
ReportOf(r) == r.archive[2].content

DownloadSucceeds(s) ==
    DownloadReads(s) /\ resp'.op = "download" /\ resp'.kind = "ok"

\* what the report must show for a result row, going by its status alone
SectionAsClaimed(text, row) ==
    IF row.status = "COMPLETED"
    THEN /\ ContainsSeq(text, <<"OCR Confidence: ">>
                                \o ToFixed2(row.confidence * 100) \o <<"%">>)
         /\ Contains(text, "Processing Time: ")
         /\ row.summary # NullStr =>
               ContainsSeq(text, <<"Summary: ">> \o row.summary \o <<"\n">>)
         /\ ContainsSeq(text, <<"\n">> \o row.extractedText \o <<"\n">>)
    ELSE IF row.status = "FAILED"
    THEN /\ ContainsSeq(text, <<"Error: ">> \o row.error \o <<"\n">>)
         /\ ~Contains(text, "OCR Confidence: ")
    ELSE /\ ~Contains(text, "EXTRACTED TEXT (OCR)")
         /\ ~Contains(text, "OCR STATUS: FAILED")
         /\ ~Contains(text, "OCR Confidence: ")
         /\ ~Contains(text, "Error: ")

\* C21: the extraction section of the report depends only on the status of
\* the result row: COMPLETED shows the confidence (whatever its value, 0
\* included), the processing time, the summary if there is one and the
\* whole text; FAILED shows the error message; with no row or a row in
\* another status there is no section.
C21_ExtractionSection ==
    [][\A s \in DOMAIN reqs : DownloadSucceeds(s) =>
          SectionAsClaimed(ReportOf(resp'), reqs[s].snap.ocrResult)
      ]_vars

\* the same statement for the rows whose confidence is not 0
C21_SectionWhenConfidencePositive ==
    [][\A s \in DOMAIN reqs :
          (DownloadSucceeds(s) /\ reqs[s].snap.ocrResult.confidence # 0) =>
          SectionAsClaimed(ReportOf(resp'), reqs[s].snap.ocrResult)
      ]_vars

\* a report was returned for a COMPLETED row whose confidence is 0
C21_Witness ==
    /\ resp.op = "download" /\ resp.kind = "ok"
    /\ HasOcr(1) /\ ocr[1].status = "COMPLETED" /\ ocr[1].confidence = 0
    /\ Contains(ReportOf(resp), "EXTRACTED TEXT (OCR)")

\* ------------------------------------------------- C22: archive and listing
\* the k-th entry (k = 1 for the newest) as the statement describes it:
\* its number, then its prompt and its response
EntryWithPrompt(row, k) ==
    /\ ContainsSeq(row.text, <<"Interaction #", ToString(k), " - ">>)
    /\ ContainsSeq(row.text, row.it.prompt \o <<"\n">>)
    /\ ContainsSeq(row.text, row.it.response \o <<"\n">>)

\* the k-th entry as printed: number and type, the question for a QUERY
\* only, then the response
EntryAsPrinted(it, k) ==
    <<"Interaction #", ToString(k), " - ", it.type, "\n">>
    \o (IF it.type = "QUERY" THEN <<"QUESTION:", "\n">> \o it.prompt \o <<"\n">>
        ELSE <<>>)
    \o <<"RESPONSE:", "\n">> \o it.response \o <<"\n">>

\* first place where part occurs in content (0 when it does not)
Position(content, part) ==
    IF ContainsSeq(content, part)
    THEN CHOOSE i \in 1..Len(content) :
            /\ i + Len(part) - 1 <= Len(content)
            /\ SubSeq(content, i, i + Len(part) - 1) = part
            /\ \A j \in 1..(i - 1) :
                  SubSeq(content, j, j + Len(part) - 1) # part
    ELSE 0

\* the archive has the stored file and the report, in this order
TwoEntries(archive, document) ==
    /\ Len(archive) = 2
    /\ archive[1].content = document.filePath
    /\ archive[1].name # archive[2].name
    /\ Contains(archive[2].content, "DOCUMENT INFORMATION")

\* the interactions of document d, newest first
Listed(d) == Reverse(DocRows(interactions, d))

\* C22 as stated: two entries; the report lists every interaction of the
\* document newest first, numbered from 1, each with its prompt and its
\* response; with no interaction it has the placeholder line.
C22_Original ==
    [][\A s \in DOMAIN reqs : DownloadSucceeds(s) =>
          LET text == ReportOf(resp')
              list == Listed(reqs[s].doc)
          IN  /\ TwoEntries(resp'.archive, reqs[s].snap.document)
              /\ \A k \in 1..Len(list) :
                    EntryWithPrompt([text |-> text, it |-> list[k]], k)
              /\ Len(list) = 0 => Contains(text, NoInteractionsLine)
      ]_vars

\* C22: two entries; the report lists every interaction of the document
\* newest first, numbered from 1 for the newest, each with its type and its
\* response, and with its prompt when it is a QUERY (the prompt of an
\* EXPLANATION is not printed); with no interaction it has the placeholder
\* line and no entry.
C22_ListsInteractions ==
    [][\A s \in DOMAIN reqs : DownloadSucceeds(s) =>
          LET text == ReportOf(resp')
              list == Listed(reqs[s].doc)
          IN  /\ TwoEntries(resp'.archive, reqs[s].snap.document)
              /\ \A k \in 1..Len(list) :
                    /\ ContainsSeq(text, EntryAsPrinted(list[k], k))
                    /\ k > 1 => Position(text, EntryAsPrinted(list[k - 1], k - 1))
                                   < Position(text, EntryAsPrinted(list[k], k))
                    /\ list[k].type # "QUERY" =>
                          ~ContainsSeq(text, list[k].prompt)
              /\ ~ContainsSeq(text, <<"Interaction #", ToString(Len(list) + 1)>>)
              /\ Contains(text, NoInteractionsLine) = (Len(list) = 0)
      ]_vars

\* a report with three entries was returned: the newest is a QUERY printed
\* with its question as entry 1, the second an EXPLANATION
C22_Witness ==
    /\ resp.op = "download" /\ resp.kind = "ok"
    /\ Len(interactions) = 3
    /\ interactions[3].type = "QUERY" /\ interactions[2].type = "EXPLANATION"
    /\ ContainsSeq(ReportOf(resp),
                   <<"Interaction #", "1", " - ", "QUERY", "\n", "QUESTION:", "\n">>
                   \o interactions[3].prompt)
    /\ ContainsSeq(ReportOf(resp), <<"Interaction #", "2", " - ", "EXPLANATION">>)

\* ------------------------------------------------- C23: PDF without text
\* the ways a file is taken for a PDF: by MIME type, by extension, by both
PdfInputs ==
    {[mimeType |-> "application/pdf", filePath |-> [name |-> 1, ext |-> ".pdf"]],
     [mimeType |-> "application/pdf", filePath |-> [name |-> 1, ext |-> ".png"]],
     [mimeType |-> "image/png", filePath |-> [name |-> 1, ext |-> ".pdf"]]}

\* the parser answered and found no text
NoTextAnswers == {e \in EngineOutcomes : e.ok /\ e.text = <<>>}

\* the adapter reports "" with confidence 100 and no error
EmptyPdfIsSuccess ==
    \A in \in PdfInputs, e \in NoTextAnswers :
        LET r == extractText(in.filePath, in.mimeType, TRUE, e) IN
        r.ok /\ r.text = <<>> /\ r.confidence = 100 /\ r.message = NullStr

\* the run holds the outcome of a PDF in which no text was found
EmptyPdf(r) ==
    /\ r.pc \in {"summary", "updateOcr", "setCompleted", "failDoc", "failOcr"}
    /\ IsPdf(r.document.filePath, r.document.mimeType)
    /\ r.result.ok /\ r.result.text = <<>> /\ r.result.confidence = 100

\* the extraction step of a PDF that did not throw and found no text goes
\* straight to the final update: no summary is asked for
EmptyPdfSkipsSummary ==
    \A i \in RunIds :
        /\ (/\ Started(i) /\ runs[i].pc = "extract" /\ Steps(i)
            /\ IsPdf(runs[i].document.filePath, runs[i].document.mimeType)
            /\ runs'[i].pc # "failDoc" /\ runs'[i].result.text = <<>>)
           => /\ runs'[i].pc = "updateOcr" /\ runs'[i].result.confidence = 100
              /\ llmCall' = NoCall
        /\ (Started(i) /\ EmptyPdf(runs[i])) =>
              runs[i].pc # "summary" /\ runs[i].summary = NullStr

EndsCompletedEmpty(i) ==
    LET d == runs[i].doc IN
    /\ d \in DOMAIN docs' /\ docs'[d].uploadStatus = "COMPLETED"
    /\ d \in DOMAIN ocr' /\ ocr'[d].status = "COMPLETED"
    /\ ocr'[d].extractedText = <<>> /\ ocr'[d].confidence = 100

\* C23 as stated: a PDF whose parser returns no text gives text "" and
\* confidence 100 as a success, no summary is attempted, and the run ends
\* COMPLETED, not FAILED (read for a document that still exists).
C23_Original ==
    [][/\ EmptyPdfIsSuccess /\ EmptyPdfSkipsSummary
       /\ \A i \in RunIds :
            (Settles(i) /\ EmptyPdf(runs[i]) /\ runs[i].doc \in DOMAIN docs')
            => EndsCompletedEmpty(i)
      ]_vars

\* C23 amended: the same, the end in COMPLETED being that of a run which no
\* other run of the same document overlaps.
C23_EmptyPdfCompletes ==
    [][/\ EmptyPdfIsSuccess /\ EmptyPdfSkipsSummary
       /\ \A i \in RunIds :
            (/\ Settles(i) /\ EmptyPdf(runs[i])
             /\ ~runs[i].overlapped /\ runs[i].doc \in DOMAIN docs')
            => EndsCompletedEmpty(i)
      ]_vars

\* a single run of a PDF ended COMPLETED with empty text and no summary
C23_Witness ==
    /\ Len(runs) = 1 /\ ~InFlight(runs[1]) /\ runs[1].outcome = "fulfilled"
    /\ Exists(1) /\ docs[1].mimeType = "application/pdf"
    /\ docs[1].uploadStatus = "COMPLETED"
    /\ HasOcr(1) /\ ocr[1].status = "COMPLETED"
    /\ ocr[1].extractedText = <<>> /\ ocr[1].confidence = 100
    /\ ocr[1].summary = NullStr

\* ------------------------------------------------- C24: OCR workers
\* workers that exist and have not been terminated
LiveWorkers(rs) ==
    Cardinality({i \in 1..Len(rs) : rs[i].workers > 0})

\* C24: every worker created for an image extraction is terminated before
\* the call returns or throws: after any sequence of extraction calls no
\* worker is alive.
C24_WorkersTerminated == LiveWorkers(runs) = 0

\* the same for the calls that return: a run that went past a successful
\* extraction has left no worker
C24_TerminatedOnSuccess ==
    \A i \in 1..Len(runs) :
        runs[i].pc \in {"summary", "updateOcr", "setCompleted"}
        => runs[i].workers = 0

\* ------------------------------------------------- C25: unconfigured adapter
\* errors a configured adapter's call can end with, among them one whose
\* text is that of the configuration error
CallErrors ==
    {a \in ApiOutcomes : ~a.ok}
    \cup {[ok |-> FALSE, text |-> <<>>, msg |-> MsgKeyMissing[1]]}

\* the failure of an unconfigured adapter is the same whatever the API would
\* answer, and differs from every failure of a configured adapter's call
FailsDistinctly ==
    /\ \A a \in ApiOutcomes \cup CallErrors :
          /\ generateExplanation(FALSE, a) = LlmError(MsgKeyMissing)
          /\ answerQuery(FALSE, a) = LlmError(MsgKeyMissing)
    /\ \A a \in CallErrors :
          /\ ~generateExplanation(TRUE, a).ok
          /\ generateExplanation(TRUE, a).message # MsgKeyMissing
          /\ Head(generateExplanation(TRUE, a).message) = "LLM explanation failed: "
          /\ ~answerQuery(TRUE, a).ok
          /\ answerQuery(TRUE, a).message # MsgKeyMissing
          /\ Head(answerQuery(TRUE, a).message) = "LLM query failed: "

\* a request or a run consults the adapter in this step
Consults(op) ==
    \E s \in DOMAIN reqs :
        reqs[s].op = op /\ reqs[s].pc = "llm" /\ reqs'[s].op = "none"

SummaryStep(i) == Started(i) /\ runs[i].pc = "summary" /\ Steps(i)

FrameOps == {"explain", "query", "download", "reprocess"}

\* a request of one of these operations takes a step
RequestStep(s) ==
    /\ reqs'[s] # reqs[s]
    /\ reqs[s].op \in FrameOps \/ reqs'[s].op \in FrameOps

\* a step of the get or list handler: it reads and changes nothing
ReadStep ==
    \/ \E d \in DocIds, u \in Users : getDocument(d, u)
    \/ \E u \in Users : listDocuments(u)

\* C26: no operation changes the filePath or the owner of a document after
\* its creation; uploadStatus is changed by steps of pipeline runs only;
\* get, list, explain, query, download and the handler of reprocess leave
\* every field of every Document unchanged.
C26_DocumentFrame ==
    [][/\ \A d \in DOMAIN docs \cap DOMAIN docs' :
            /\ docs'[d].filePath = docs[d].filePath
            /\ docs'[d].userId = docs[d].userId
            /\ docs'[d].mimeType = docs[d].mimeType
            /\ docs'[d].uploadStatus # docs[d].uploadStatus =>
                  \E i \in RunIds : Steps(i) /\ runs[i].doc = d
       /\ (\E s \in DOMAIN reqs : RequestStep(s)) => docs' = docs
       /\ ReadStep => docs' = docs
      ]_vars

\* a reprocess run has completed and an explanation has then been given:
\* the document still has its path and owner
C26_Witness ==
    /\ resp = Done("explain")
    /\ Len(runs) = 2 /\ runs[2].origin = "reprocess" /\ ~InFlight(runs[2])
    /\ Exists(1) /\ docs[1].uploadStatus = "COMPLETED"
    /\ docs[1].userId = "u1" /\ docs[1].filePath.name = 1

\* ------------------------------------------------- C27: reprocess returns
\* C27: reprocess returns after deleting the result row and scheduling the
\* run, without touching uploadStatus: right after it returns the document
\* shows the status it had, and a document becomes PROCESSING only by the
\* first step of a run.
C27_ReturnsBeforeProcessing ==
    [][/\ \A s \in DOMAIN reqs : ReprocessReturns(s) =>
            LET d == reqs[s].doc IN
            /\ resp' = Done("reprocess")
            /\ d \notin DOMAIN ocr'
            /\ docs' = docs
            /\ Len(runs') = Len(runs) + 1
            /\ runs'[Len(runs')].doc = d
            /\ runs'[Len(runs')].pc = "setProcessing"
       /\ \A d \in DocIds :
            (StatusChanges(d) /\ docs'[d].uploadStatus = "PROCESSING") =>
            \E i \in RunIds :
                /\ Started(i) /\ runs[i].doc = d
                /\ runs[i].pc = "setProcessing" /\ Steps(i)
      ]_vars

\* reprocess has returned for a document whose run had failed: the row is
\* gone, the new run has not taken its first step and the document still
\* shows FAILED
C27_Witness ==
    /\ resp = Done("reprocess")
    /\ Exists(1) /\ docs[1].uploadStatus = "FAILED" /\ ~HasOcr(1)
    /\ Len(runs) = 2 /\ ~InFlight(runs[1])
    /\ runs[2].origin = "reprocess" /\ runs[2].pc = "setProcessing"

\* ------------------------------------------------- C28: overlapping runs
\* the owner's reprocess passes its checks whatever the status of the
\* document and whatever runs are in flight
ReprocessAccepted ==
    \A d \in DOMAIN docs : reprocessCheck(d, docs[d].userId).kind = "ok"

\* a run writes the result row in this step: the row then holds what this
\* run wrote, whatever another run had put there
WritesPrevail ==
    \A i \in 1..Len(runs) :
        LET d == runs[i].doc IN
        (Steps(i) /\ d \in DOMAIN ocr /\ d \in DOMAIN ocr') =>
           /\ runs[i].pc = "upsert" /\ runs'[i].pc = "extract" =>
                 ocr'[d].status = "PROCESSING"
           /\ runs[i].pc = "updateOcr" /\ runs'[i].pc = "setCompleted" =>
                 /\ ocr'[d].status = "COMPLETED"
                 /\ ocr'[d].extractedText = runs[i].result.text
                 /\ ocr'[d].confidence = runs[i].result.confidence
           /\ runs[i].pc = "failOcr" =>
                 /\ ocr'[d].status = "FAILED"
                 /\ ocr'[d].error = runs[i].error

Rank(pc) ==
    CASE pc = "setProcessing" -> 1
      [] pc = "load" -> 2
      [] pc = "upsert" -> 3
      [] pc = "extract" -> 4
      [] pc = "summary" -> 5
      [] pc = "updateOcr" -> 6
      [] pc = "setCompleted" -> 7
      [] pc = "done" -> 8
      [] OTHER -> 0

\* run i takes a step that does not enter its failure branch
Advances(i) ==
    /\ Started(i) /\ Steps(i)
    /\ Rank(runs[i].pc) > 0 /\ Rank(runs'[i].pc) > 0

\* what run i writes in the step it takes
WritesInOrder(i) ==
    LET d == runs[i].doc
        from == runs[i].pc
    IN  /\ Rank(runs'[i].pc) > Rank(from)
        /\ from = "setProcessing" =>
              docs'[d].uploadStatus = "PROCESSING" /\ ocr' = ocr
        /\ from = "load" => docs' = docs /\ ocr' = ocr
        /\ from = "upsert" =>
              /\ d \in DOMAIN ocr' /\ ocr'[d].status = "PROCESSING"
              /\ docs' = docs
        /\ from \in {"extract", "summary"} => docs' = docs /\ ocr' = ocr
        /\ from = "extract" => runs'[i].result.ok /\ runs[i].result = NoResult
        /\ from = "updateOcr" =>
              /\ d \in DOMAIN ocr' /\ ocr'[d].status = "COMPLETED"
              /\ docs' = docs
        /\ from = "setCompleted" =>
              docs'[d].uploadStatus = "COMPLETED" /\ ocr' = ocr

\* what is stored when run i, overlapped by no other run of the document,
\* takes a step
SeenInOrder(i) ==
    LET d == runs[i].doc
        from == runs[i].pc
    IN  (~runs[i].overlapped /\ ~runs'[i].overlapped /\ Exists(d)) =>
        /\ from \in {"extract", "summary", "updateOcr"} =>
              /\ docs[d].uploadStatus = "PROCESSING"
              /\ HasOcr(d) /\ ocr[d].status = "PROCESSING"
        /\ from = "setCompleted" =>
              /\ docs[d].uploadStatus = "PROCESSING"
              /\ HasOcr(d) /\ ocr[d].status = "COMPLETED"

\* C29: within one run the steps occur in this order: the document is set
\* PROCESSING, the result row is upserted PROCESSING, the extraction adapter
\* is invoked, the result is persisted COMPLETED, then the document is set
\* COMPLETED; the adapter is not invoked before both PROCESSING writes and
\* the document is not set COMPLETED before its result row is.
C29_RunOrder ==
    [][\A i \in RunIds :
          /\ Advances(i) => WritesInOrder(i) /\ SeenInOrder(i)
          /\ (Started(i) /\ Steps(i) /\ runs[i].pc = "extract") =>
                runs[i].result = NoResult
          /\ (~Started(i) /\ i \in 1..Len(runs')) =>
                runs'[i].pc = "setProcessing"
      ]_vars

\* a single run has persisted its result as COMPLETED and has not yet set
\* the document COMPLETED
C29_Witness ==
    /\ Len(runs) = 1 /\ runs[1].pc = "setCompleted"
    /\ Exists(1) /\ docs[1].uploadStatus = "PROCESSING"
    /\ HasOcr(1) /\ ocr[1].status = "COMPLETED"

\* ------------------------------------------------- C30: summary limits
\* the text handed to the assistant by a summary call
PassedText(call) ==
    LET content == call.messages[2].content
        lead == Len(ExplanationPrompt(<<>>, SummaryPrompt))
    IN  SubSeq(content, lead + 1, Len(content))

\* an answer without its first character if that is a quote and without
\* its last character if that is a quote
Unquoted(t) ==
    SubSeq(t, IF t # <<>> /\ IsQuote(t[1]) THEN 2 ELSE 1,
              IF Len(t) > 1 /\ IsQuote(t[Len(t)]) THEN Len(t) - 1 ELSE Len(t))

\* the summary kept for an answer: at most SummaryMax characters, the
\* beginning of the answer without its two quotes and outer blanks
SummaryAsClaimed(summary, t) ==
    /\ Len(summary) <= SummaryMax
    /\ Len(summary) = Min(SummaryMax, Len(Trim(Unquoted(t))))
    /\ summary = SubSeq(Trim(Unquoted(t)), 1, Len(summary))

\* C30: a summary is requested only when the extracted text is not empty
\* after trimming; the text passed to the assistant is the first 3000
\* characters at most; a persisted summary has at most 150 characters and
\* is the answer with a leading and a trailing quote removed (the quotes
\* that are its first and its last character).
C30_SummaryLimits ==
    [][/\ (Started(1) /\ runs[1].pc = "extract" /\ Steps(1)) =>
            /\ llmCall' = NoCall
            /\ (runs'[1].pc = "summary") = (Len(Trim(runs'[1].result.text)) > 0)
       /\ SummaryStep(1) =>
            LET text == runs[1].result.text IN
            /\ Len(Trim(text)) > 0
            /\ llmConfigured =>
                  /\ llmCall'.fn = "generateExplanation"
                  /\ PassedText(llmCall') = SubSeq(text, 1, Min(Len(text), SummarySlice))
                  /\ Len(PassedText(llmCall')) <= SummarySlice
                  /\ ~Contains(PassedText(llmCall'), "b")
            /\ \/ runs'[1].summary = NullStr
               \/ \E t \in LongLlmTexts : SummaryAsClaimed(runs'[1].summary, t)
            /\ \A t \in LongLlmTexts : SummaryAsClaimed(CleanSummary(t), t)
       /\ (Started(1) /\ runs[1].pc = "updateOcr" /\ Steps(1) /\ 1 \in DOMAIN ocr') =>
            /\ ocr'[1].summary # NullStr =>
                  /\ ocr'[1].summary = runs[1].summary
                  /\ 0 < Len(ocr'[1].summary) /\ Len(ocr'[1].summary) <= SummaryMax
            /\ ocr'[1].summary = NullStr =>
                  runs[1].summary \in {NullStr, <<>>}
       /\ llmCall'.fn = "generateExplanation" => SummaryStep(1)
      ]_vars

\* a text of 3001 characters was extracted, its first 3000 were passed,
\* and the answer, longer than the limit, was persisted cut to 150
C30_Witness ==
    /\ HasOcr(1) /\ ocr[1].status = "COMPLETED"
    /\ Len(ocr[1].extractedText) = SummarySlice + 1
    /\ ocr[1].summary = Letters(SummaryMax)

\* ------------------------------------------- detail page (frontend client)
\* The page /documents/[id] of one browser tab, held in the request slot of
\* its tab: `document` is the React state of that name (NoSnap is null),
\* `seen` is the value of the constant `document` inside the closure of the
\* interval callback, `error` the message on the page.
PageSlot == 1

NoPage ==
    [op |-> "page", pc |-> "closed", doc |-> 0, user |-> "",
     document |-> NoSnap, error |-> <<>>, seen |-> NoSnap]

PageAt(pc) == ~crashed /\ reqs[PageSlot].pc = pc
PageOpen == ~crashed /\ reqs[PageSlot].pc # "closed"

\* the first render: useState(null) for document, useState('') for error
DocumentDetailPage(id, userId) ==
    /\ PageAt("closed")
    /\ Exists(id)
    /\ reqs' = [reqs EXCEPT ![PageSlot] =
                  [NoPage EXCEPT !.pc = "render", !.doc = id, !.user = userId]]
    /\ UNCHANGED <<docs, ocr, interactions, files, runs, resp, llmCall, nextId,
                   llmConfigured, crashed>>

\* useEffect(() => {...}, [id]): runs once, after the first render. It
\* calls loadDocument() and sets the interval; the callback closes over
\* the `document` of the render in which the effect ran.
useEffect ==
    /\ PageAt("render")
    /\ reqs' = [reqs EXCEPT ![PageSlot].pc = "getOne",
                            ![PageSlot].seen = reqs[PageSlot].document]
    /\ UNCHANGED <<docs, ocr, interactions, files, runs, resp, llmCall, nextId,
                   llmConfigured, crashed>>

\* loadDocument, at the answer of documentsApi.getOne(id): setDocument(data)
\* and setError(''), or setError(message) in the catch block
loadDocument ==
    /\ PageAt("getOne")
    /\ LET p == reqs[PageSlot]
           f == findOne(p.doc, p.user) IN
       reqs' = [reqs EXCEPT ![PageSlot] =
                  IF f.kind = "ok"
                  THEN [p EXCEPT !.document = f.snap, !.error = <<>>, !.pc = "file"]
                  ELSE [p EXCEPT !.error = f.msg, !.pc = "idle"]]
    /\ UNCHANGED <<docs, ocr, interactions, files, runs, resp, llmCall, nextId,
                   llmConfigured, crashed>>

\* loadDocument, at the answer of GET /documents/:id/file: the preview is
\* set or the failure is logged; `document` and `error` are left alone
loadPreview ==
    /\ PageAt("file")
    /\ reqs' = [reqs EXCEPT ![PageSlot].pc = "idle"]
    /\ UNCHANGED <<docs, ocr, interactions, files, runs, resp, llmCall, nextId,
                   llmConfigured, crashed>>

\* if (document?.uploadStatus === 'PROCESSING' ||
\*     document?.ocrResult?.status === 'PROCESSING')
StillProcessing(document) ==
    \/ document.document.uploadStatus = "PROCESSING"
    \/ document.ocrResult.status = "PROCESSING"

\* the callback of setInterval(..., 3000): it tests the `document` of its
\* closure and calls loadDocument() (a load still in flight is superseded
\* by the new one)
interval ==
    /\ PageOpen /\ ~PageAt("render")
    /\ reqs' = IF StillProcessing(reqs[PageSlot].seen)
               THEN [reqs EXCEPT ![PageSlot].pc = "getOne"]
               ELSE reqs
    /\ UNCHANGED <<docs, ocr, interactions, files, runs, resp, llmCall, nextId,
                   llmConfigured, crashed>>

\* One document is submitted and processed while its owner or another
\* user opens the detail page; nobody touches the page afterwards.
PageInit ==
    /\ docs = <<>>
    /\ ocr = <<>>
    /\ interactions = <<>>
    /\ files = {}
    /\ runs = <<>>
    /\ reqs = [s \in {PageSlot} |-> NoPage]
    /\ resp = NoResp
    /\ llmCall = NoCall
    /\ nextId = 1
    /\ llmConfigured \in BOOLEAN
    /\ crashed = FALSE

PageNext ==
    \/ \E u \in Uploaders, up \in Uploads : createDocument(u, up)
    \/ \E i \in 1..MaxRuns : SetProcessing(i)
    \/ \E i \in 1..MaxRuns : LoadDocument(i)
    \/ \E i \in 1..MaxRuns : UpsertOcr(i)
    \/ \E i \in 1..MaxRuns : Extract(i)
    \/ \E i \in 1..MaxRuns : Summary(i)
    \/ \E i \in 1..MaxRuns : UpdateOcrCompleted(i)
    \/ \E i \in 1..MaxRuns : SetCompleted(i)
    \/ \E i \in 1..MaxRuns : FailDoc(i)
    \/ \E i \in 1..MaxRuns : FailOcr(i)
    \/ \E d \in DocIds, u \in Users : DocumentDetailPage(d, u)
    \/ useEffect
    \/ loadDocument
    \/ loadPreview
    \/ interval

PageSpec == PageInit /\ [][PageNext]_vars

\* a step of some run of processOCR
RunStep ==
    \E i \in 1..MaxRuns :
        \/ SetProcessing(i) \/ LoadDocument(i) \/ UpsertOcr(i) \/ Extract(i)
        \/ Summary(i) \/ UpdateOcrCompleted(i) \/ SetCompleted(i)
        \/ FailDoc(i) \/ FailOcr(i)

\* Scheduling: the server's event loop resumes every run whose awaited
\* call has returned; the browser runs a mounted component's effect,
\* delivers the answers of its HTTP calls, and fires its interval timer.
FairPageSpec ==
    /\ PageSpec
    /\ WF_vars(RunStep)
    /\ WF_vars(useEffect)
    /\ WF_vars(loadDocument)
    /\ WF_vars(loadPreview)
    /\ WF_vars(interval)

\* ---- C31: the detail page polls while the document is processing
Shown == reqs[PageSlot].document
PipelineSettled(d) ==
    /\ Exists(d) /\ ActiveRunsOf(d) = {}
    /\ Terminal(docs[d].uploadStatus)
ShowsProcessing == PageOpen /\ StillProcessing(Shown)
ShowsTerminal == PageOpen /\ Terminal(Shown.document.uploadStatus)

\* C31: a page that shows its document as PROCESSING (uploadStatus or
\* ExtractionResult.status) re-fetches it on its 3-second timer, so once
\* the pipeline has settled the page comes to show the terminal status
\* (COMPLETED or FAILED) with no user action.
C31_PageShowsTerminal ==
    (ShowsProcessing /\ PipelineSettled(reqs[PageSlot].doc)) ~> ShowsTerminal

\* the page shows PROCESSING, its timer is running, and the pipeline has
\* settled with a terminal status
C31_Stale ==
    /\ PageAt("idle") /\ ShowsProcessing
    /\ PipelineSettled(reqs[PageSlot].doc)

\* ---- C32: a document shown as COMPLETED has a COMPLETED result
\* C32 as stated: in every reachable state a document whose uploadStatus
\* is COMPLETED has an ExtractionResult whose status is COMPLETED.
C32_Original ==
    \A d \in DOMAIN docs :
        docs[d].uploadStatus = "COMPLETED"
        => HasOcr(d) /\ ocr[d].status = "COMPLETED"

\* the run that reprocess has scheduled has not yet written PROCESSING
AwaitsFirstWrite(d) == runs[LastRunOf(d)].pc = "setProcessing"

\* C32 amended: a document whose uploadStatus is COMPLETED has an
\* ExtractionResult with status COMPLETED, unless the run scheduled last
\* for it has not yet made its first write (the window after a reprocess
\* has deleted the result) or overlapped another run of the document.
C32_CompletedHasResult ==
    \A d \in DOMAIN docs :
        (/\ docs[d].uploadStatus = "COMPLETED"
         /\ RunsOf(d) # {}
         /\ ~runs[LastRunOf(d)].overlapped
         /\ ~AwaitsFirstWrite(d))
        => HasOcr(d) /\ ocr[d].status = "COMPLETED"

\* a reprocess run, started after the first run had settled, has completed
\* the document again
C32_Witness ==
    \E d \in DOMAIN docs :
        /\ docs[d].uploadStatus = "COMPLETED"
        /\ Cardinality(RunsOf(d)) = 2 /\ ActiveRunsOf(d) = {}
        /\ ~runs[LastRunOf(d)].overlapped
        /\ runs[LastRunOf(d)].origin = "reprocess"
        /\ HasOcr(d) /\ ocr[d].status = "COMPLETED"

\* the window itself: reprocess has returned, the document still shows
\* COMPLETED and its result is gone
C32_Window ==
    \E d \in DOMAIN docs :
        /\ docs[d].uploadStatus = "COMPLETED" /\ ~HasOcr(d)
        /\ ~runs[LastRunOf(d)].overlapped /\ AwaitsFirstWrite(d)

\* ---- C33: a document deleted under a running pipeline stays deleted
\* the document of run i was deleted (ids are never reused)
Deleted(i) == Started(i) /\ ~Exists(runs[i].doc)

\* the statements of processOCR that write to the database
WritePcs == {"setProcessing", "upsert", "updateOcr", "setCompleted",
             "failDoc", "failOcr"}

\* nothing of document d is stored
FullyDeleted(d) ==
    ~Exists(d) /\ ~HasOcr(d) /\ CountOf(interactions, d) = 0

\* C33: once deleteDocument has completed, every remaining step of a run of
\* the deleted document leaves the three tables as they are: each of its
\* writes fails (inside the try block control moves to the catch block,
\* inside the catch block the promise rejects), the rejection is handled
\* where the run was scheduled, and no row of the deleted id exists in any
\* reachable state.
C33_DeletedStaysDeleted ==
    /\ [](\A i \in 1..Len(runs) : Deleted(i) => FullyDeleted(runs[i].doc))
    /\ [](~crashed)
    /\ [][\A i \in 1..MaxRuns :
            (Deleted(i) /\ Steps(i))
            => /\ docs' = docs /\ ocr' = ocr /\ interactions' = interactions
               /\ runs[i].pc \in WritePcs
                    => \/ runs[i].pc \notin {"failDoc", "failOcr"}
                          /\ runs'[i].pc = "failDoc"
                       \/ runs[i].pc \in {"failDoc", "failOcr"}
                          /\ runs'[i].pc = "done"
                          /\ runs'[i].outcome = "rejected"
      ]_vars

\* the document was deleted while its run was in flight; the run's next
\* write and the write of its catch block failed, and nothing is stored
C33_Witness ==
    /\ Started(1) /\ FullyDeleted(runs[1].doc)
    /\ runs[1].outcome = "rejected"
    /\ resp.op # "delete"
    /\ ~crashed

\* ------------------------------------------- reprocess under explain / query
\* One processed document with a history of prior calls is reprocessed
\* once while explain / query calls on it may be in flight.
MaxRedoHistory == 2   \* interactions that exist at the start
MaxRedoRuns == 1      \* reprocess runs
MaxRedoReqs == 2      \* boundary requests in flight at once

RedoSlots == 1..MaxRedoReqs

\* the result of the earlier extraction, with a text that the reprocess run
\* will not extract again
EarlierText == <<"o">>
EarlierResult == CompletedRow(NewOcrRow, ExtractOk(EarlierText, 100, 1500), NullStr)

RedoInit ==
    /\ docs = [d \in {1} |-> ProcessedDocument(d)]
    /\ ocr = [d \in {1} |-> EarlierResult]
    /\ \E n \in 0..MaxRedoHistory : interactions = History(n, 0)
    /\ files = {StoredFile(1)}
    /\ runs = <<>>
    /\ reqs = [s \in RedoSlots |-> FreeReq]
    /\ resp = NoResp
    /\ llmCall = NoCall
    /\ nextId = 2
    /\ llmConfigured \in BOOLEAN
    /\ crashed = FALSE

reprocessOnce(s, id, userId) ==
    /\ Len(runs) + Pending({"reprocess"}) < MaxRedoRuns
    /\ reprocessBegin(s, id, userId)

RedoNext ==
    \/ \E s \in RedoSlots, u \in Users, c \in Contexts : explainAgain(s, 1, u, c)
    \/ \E s \in RedoSlots : explainFinish(s)
    \/ \E s \in RedoSlots, u \in Users, q \in Questions : queryAgain(s, 1, u, q)
    \/ \E s \in RedoSlots : queryHistory(s)
    \/ \E s \in RedoSlots : queryFinish(s)
    \/ \E s \in RedoSlots, u \in Users : reprocessOnce(s, 1, u)
    \/ \E s \in RedoSlots : reprocessFinish(s)
    \/ \E i \in 1..MaxRedoRuns : SetProcessing(i)
    \/ \E i \in 1..MaxRedoRuns : LoadDocument(i)
    \/ \E i \in 1..MaxRedoRuns : UpsertOcr(i)
    \/ \E i \in 1..MaxRedoRuns : Extract(i)
    \/ \E i \in 1..MaxRedoRuns : Summary(i)
    \/ \E i \in 1..MaxRedoRuns : UpdateOcrCompleted(i)
    \/ \E i \in 1..MaxRedoRuns : SetCompleted(i)
    \/ \E i \in 1..MaxRedoRuns : FailDoc(i)
    \/ \E i \in 1..MaxRedoRuns : FailOcr(i)

RedoSpec == RedoInit /\ [][RedoNext]_vars

\* ---- C34: when an Interaction row is appended
\* request s, waiting for the assistant, ends in this step
CallEnds(s) ==
    /\ reqs[s].op \in {"explain", "query"} /\ reqs[s].pc = "llm"
    /\ reqs'[s].op = "none"

Grows == Len(interactions') > Len(interactions)

ResultCompleted(d) == HasOcr(d) /\ ocr[d].status = "COMPLETED"

\* C34 as stated: a row is appended only in a state in which the
\* ExtractionResult of its document exists with status COMPLETED.
C34_Original ==
    [][Grows => ResultCompleted(Last(interactions').documentId)]_vars

\* C34 amended: a row is appended only by an explain / query request whose
\* readiness check found the ExtractionResult COMPLETED when the request
\* began; the check is not repeated after the assistant has answered, so
\* the request appends its row whenever the assistant answers and the
\* document still exists, whatever has become of the ExtractionResult.
C34_AppendedAfterCheck ==
    [][/\ Grows => \E s \in RedoSlots : CallEnds(s)
       /\ \A s \in RedoSlots :
            CallEnds(s)
            => /\ reqs[s].snap.ocrResult.status = "COMPLETED"
               /\ Grows <=> resp' = Done(reqs[s].op)
               /\ resp' = Done(reqs[s].op)
                    => /\ AppendsOne
                       /\ Last(interactions').documentId = reqs[s].doc
                       /\ llmCall'.fn # "none"
               /\ resp' # Done(reqs[s].op)
                    => resp' = Thrown(reqs[s].op, "InternalError", resp'.msg)
      ]_vars

\* a call passed its check, a reprocess deleted the result while the
\* assistant was answering, and the row was appended all the same
C34_Witness ==
    /\ resp.kind = "ok" /\ resp.op \in {"explain", "query"}
    /\ Appended = 1
    /\ ~ResultCompleted(1)
    /\ Len(runs) = 1

\* ---- C35: a failing assistant call leaves no trace
\* the errors the adapter can throw, per operation
ExplainFailures ==
    {generateExplanation(c, a).message : c \in BOOLEAN, a \in ApiOutcomes}
    \ {NullStr}
QueryFailures ==
    {answerQuery(c, a).message : c \in BOOLEAN, a \in ApiOutcomes} \ {NullStr}

\* C35: when the adapter fails during explainDocument or queryDocument
\* (no credential configured, or the call errors), the operation throws
\* the adapter's error to its caller and creates no Interaction row; the
\* step changes neither the Document nor its ExtractionResult.
C35_FailedCallLeavesNoTrace ==
    [][\A s \in Slots :
          CallEnds(s) =>
            LET op == reqs[s].op
                failures == IF op = "explain" THEN ExplainFailures
                            ELSE QueryFailures
            IN  /\ ~llmConfigured
                     => resp' = Thrown(op, "InternalError", MsgKeyMissing)
                /\ resp'.kind # "ok"
                     => /\ resp' = Thrown(op, "InternalError", resp'.msg)
                        /\ interactions' = interactions
                        /\ Exists(reqs[s].doc) => resp'.msg \in failures
                /\ resp'.kind = "ok" => llmConfigured /\ Grows
                /\ docs' = docs /\ ocr' = ocr
      ]_vars

\* the assistant's API refused a query on a processed document: the error
\* came back, and no row was stored
C35_Witness ==
    /\ llmConfigured
    /\ resp = Thrown("query", "InternalError", <<"LLM query failed: ", "rate limit">>)
    /\ interactions = <<>>
    /\ Exists(1) /\ HasOcr(1) /\ ocr[1].status = "COMPLETED"

\* ---- C36: reprocess keeps the interactions
\* a step of the reprocess handler
ReprocessStep ==
    \E s \in RedoSlots :
        /\ reqs'[s] # reqs[s]
        /\ reqs[s].op = "reprocess" \/ reqs'[s].op = "reprocess"

\* the text the reprocess run extracts, which the earlier extraction did not
NewText == <<"t">>

\* C36: the handler of reprocess and every step of the run it starts leave
\* the Interaction rows unchanged, so the rows created against the earlier
\* extraction stay in place (rows are only ever appended); a later
\* queryDocument reads the current extracted text, loads the most recent
\* rows of the document, the earlier ones included, and replays them as
\* turns ahead of the new text and the question.
C36_ReprocessKeepsInteractions ==
    [][/\ ReprocessStep => interactions' = interactions
       /\ \A i \in 1..MaxRedoRuns : Steps(i) => interactions' = interactions
       /\ Len(interactions') >= Len(interactions)
       /\ SubSeq(interactions', 1, Len(interactions)) = interactions
       /\ \A s \in RedoSlots :
            /\ QueryProceeds(s)
                 => reqs'[s].snap.ocrResult.extractedText
                       = ocr[reqs'[s].doc].extractedText
            /\ QueryLoads(s) => reqs'[s].prev = MostRecent(reqs[s].doc)
            /\ QuerySends(s)
                 => /\ llmCall'.fn = "answerQuery"
                    /\ TurnsAsClaimed(llmCall'.messages, reqs[s].prev,
                                      reqs[s].snap.ocrResult.extractedText,
                                      reqs[s].arg)
      ]_vars

\* the document was reprocessed and its new text differs from the old; a
\* query made afterwards replayed the two earlier interactions ahead of
\* the new text
C36_Witness ==
    /\ Len(runs) = 1 /\ runs[1].outcome = "fulfilled"
    /\ HasOcr(1) /\ ocr[1].extractedText = NewText
    /\ NewText # EarlierText
    /\ Len(interactions) >= 2
    /\ SubSeq(interactions, 1, 2) = History(2, 0)
    /\ llmCall.fn = "answerQuery" /\ Len(llmCall.messages) = 6
    /\ llmCall.messages[2].content = HistoryPrompts[1]
    /\ llmCall.messages[5].content = HistoryResponses[2]
    /\ llmCall.messages[6].content = QueryPrompt(NewText, <<"q">>)

\* ---- C37: status and error of an ExtractionResult
NoError(row) == row.error = NullStr
HasError(row) == row.error # NullStr /\ Len(row.error) > 0

\* C37 as stated: in every reachable state a COMPLETED ExtractionResult
\* carries no error message and a FAILED one carries a non-empty error
\* message, overlapping runs included.
C37_Original ==
    \A d \in DOMAIN ocr :
        /\ ocr[d].status = "COMPLETED" => NoError(ocr[d])
        /\ ocr[d].status = "FAILED" => HasError(ocr[d])

\* C37 amended: a FAILED ExtractionResult carries a non-empty error message
\* in every reachable state, and an ExtractionResult that is not FAILED
\* carries none provided the run scheduled last for its document overlapped
\* no other run of that document.
C37_ErrorMatchesStatus ==
    \A d \in DOMAIN ocr :
        /\ ocr[d].status = "FAILED" => HasError(ocr[d])
        /\ (ocr[d].status # "FAILED" /\ RunsOf(d) # {}
            /\ ~runs[LastRunOf(d)].overlapped)
           => NoError(ocr[d])

\* a reprocess run, started after the first run had settled, has failed:
\* the row it created is FAILED and carries the run's error message
C37_Witness ==
    \E d \in DOMAIN ocr :
        /\ Cardinality(RunsOf(d)) = 2 /\ ActiveRunsOf(d) = {}
        /\ ~runs[LastRunOf(d)].overlapped
        /\ runs[LastRunOf(d)].origin = "reprocess"
        /\ ocr[d].status = "FAILED" /\ HasError(ocr[d])
        /\ ocr[d].extractedText = <<>>

\* a COMPLETED result that carries the error of an overlapped failing run
C37_StaleError ==
    \E d \in DOMAIN ocr : ocr[d].status = "COMPLETED" /\ HasError(ocr[d])

====
